---------------------------- MODULE Spec2Model ----------------------------
(***************************************************************************)
(* caddy-chrome: the render pipeline of Middleware.ServeHTTP.              *)
(*                                                                         *)
(* One client request is followed from the upstream handler through the    *)
(* chromedp task list (Fetch/Runtime enable, router listener, cookies,     *)
(* User-Agent, settlement script, Navigate, Evaluate pendingTask, DOM      *)
(* snapshot) to the emission of the rendered response.  Every              *)
(* Fetch.requestPaused event starts its own router worker (goroutine);     *)
(* the page side runs the settlement script of js/on_new_document.js.      *)
(*                                                                         *)
(* Strings that the code takes apart or puts together are sequences of     *)
(* tokens: a URL is <<scheme, "://", host, path>>, a body is a sequence of *)
(* bytes, a Base64 text is a sequence of characters.                       *)
(***************************************************************************)
EXTENDS Integers, Sequences, FiniteSets, TLC

(***************************************************************************)
(* Bounds of the model.                                                    *)
(***************************************************************************)
\* paused requests the page issues besides the main document
MaxRequests == 1
\* paused requests besides the main document when requests overlap
MaxOverlap == 2
\* pending-task events the page dispatches
MaxTasks == 2
\* longest response body (bytes)
MaxBodyLen == 3
MaxExceptions == 1
\* arguments on an exec line, lines in a chrome block
MaxArgs == 3
MaxLines == 2
\* children of a node, attributes of an element, shadow roots of a host,
\* and the latest Write at which the writer of the model may fail
MaxChildren == 2
MaxAttributes == 2
MaxShadowRoots == 2
MaxFailAt == 12
\* Sessions opened one inside the other by the replay of one request
MaxSessions == 2

(***************************************************************************)
(* Small helpers on finite maps (Go maps, http.Header).                    *)
(***************************************************************************)
EmptyMap == <<>>

MapPut(m, k, v) == [x \in (DOMAIN m) \cup {k} |-> IF x = k THEN v ELSE m[x]]

(***************************************************************************)
(* encoding/base64 StdEncoding.EncodeToString, on a sequence of bytes.     *)
(***************************************************************************)
B64Alphabet ==
  << "A","B","C","D","E","F","G","H","I","J","K","L","M","N","O","P",
     "Q","R","S","T","U","V","W","X","Y","Z","a","b","c","d","e","f",
     "g","h","i","j","k","l","m","n","o","p","q","r","s","t","u","v",
     "w","x","y","z","0","1","2","3","4","5","6","7","8","9","+","/" >>

B64Char(n) == B64Alphabet[n + 1]

RECURSIVE Base64Encode(_)
Base64Encode(bs) ==
  IF Len(bs) = 0 THEN <<>>
  ELSE IF Len(bs) = 1 THEN
    << B64Char(bs[1] \div 4), B64Char((bs[1] % 4) * 16), "=", "=" >>
  ELSE IF Len(bs) = 2 THEN
    << B64Char(bs[1] \div 4),
       B64Char((bs[1] % 4) * 16 + (bs[2] \div 16)),
       B64Char((bs[2] % 16) * 4), "=" >>
  ELSE
    << B64Char(bs[1] \div 4),
       B64Char((bs[1] % 4) * 16 + (bs[2] \div 16)),
       B64Char((bs[2] % 16) * 4 + (bs[3] \div 64)),
       B64Char(bs[3] % 64) >> \o Base64Encode(SubSeq(bs, 4, Len(bs)))

(***************************************************************************)
(* The inputs: the client request, the configuration, the upstream         *)
(* response, and what the page may ask for.                                *)
(***************************************************************************)
\* r.Host of the client request
RequestHost == "localhost:9080"
\* r.RequestURI of the client request
RequestURI == "/index.html"

\* m.FulfillHosts and m.ContinueHosts of the configuration
FulfillHosts == << "app.example.com", "both.example.com" >>
ContinueHosts == << "both.example.com", "cdn.example.com", "localhost:9080" >>

\* hosts a paused request may name that url.Parse accepts
Hosts == { RequestHost, "app.example.com", "both.example.com",
           "cdn.example.com", "other.example.com" }

\* a host with an invalid percent-escape: url.Parse fails on it
BadHost == "bad%zzhost"

\* network.ResourceType values the page's requests carry
ResourceTypes == { "Document", "Stylesheet", "Image", "Media", "Font",
                   "Script", "XHR", "Fetch" }

SampleBytes == << 77, 97, 110, 255, 0, 10 >>

\* response bodies: the prefixes of SampleBytes up to MaxBodyLen
Bodies == { SubSeq(SampleBytes, 1, n) : n \in 0..MaxBodyLen }


\* the client requests the model serves: [TLS, Cookies, UserAgent]
ClientRequests ==
  { [TLS |-> FALSE, Cookies |-> <<>>, UserAgent |-> ""],
    [TLS |-> TRUE, Cookies |-> << "test=cookie" >>, UserAgent |-> "test user agent"] }

HTMLHeader == [x \in {"Content-Type"} |-> << "text/html" >>]

CookieHeader ==
  [x \in {"Content-Type", "Set-Cookie", "Etag", "Accept-Ranges", "Content-Length",
          "Last-Modified", "Vary", "Cache-Control", "Link"} |->
     CASE x = "Content-Type" -> << "text/html; charset=utf-8" >>
       [] x = "Set-Cookie" -> << "a=1", "b=2" >>
       [] x = "Etag" -> << "abc" >>
       [] x = "Accept-Ranges" -> << "bytes" >>
       [] x = "Content-Length" -> << "1" >>
       [] x = "Last-Modified" -> << "Thu, 05 Nov 2026 00:00:00 GMT" >>
       [] x = "Vary" -> << "Accept-Encoding", "Cookie" >>
       [] x = "Cache-Control" -> << "no-cache" >>
       [] x = "Link" -> << << "<", "/upstream.css", ">; rel=preload; as=", "style" >> >>]

\* a response header with this Content-Type and an Etag
TypedHeader(contentType) ==
  [x \in {"Content-Type", "Etag"} |->
     IF x = "Content-Type" THEN << contentType >> ELSE << "abc" >>]

\* a response header without a Content-Type
UntypedHeader == [x \in {"Etag"} |-> << "abc" >>]

\* Content-Type values the admission predicate must turn down, and one it
\* must admit although it is not spelled like the configured type
OtherContentTypes ==
  { "application/json", "text/plain; charset=utf-8", "text/html; charset", "" }

\* what the next handler may write
UpstreamResponses ==
  { [status |-> 200, header |-> HTMLHeader, body |-> b] : b \in Bodies }
    \cup { [status |-> 404, header |-> CookieHeader, body |-> << 77 >>] }
    \cup { [status |-> 200, header |-> TypedHeader("Text/HTML"), body |-> << 77, 97 >>] }
    \cup { [status |-> 200, header |-> TypedHeader(ct), body |-> << 77, 97 >>] :
              ct \in OtherContentTypes }
    \cup { [status |-> 304, header |-> UntypedHeader, body |-> <<>>] }

\* m.MIMETypes after Provision (the default is text/html)
MIMETypes == << "text/html", "application/xhtml+xml" >>

\* http.Header.Get: the first value, or ""
HeaderGet(header, name) ==
  IF name \in DOMAIN header /\ Len(header[name]) > 0 THEN header[name][1] ELSE ""

\* mime.ParseMediaType on the Content-Type values above: the media type in
\* lower case without its parameters; an error for an empty value and for
\* a parameter without "=value"
ParseMediaType(v) ==
  CASE v = "text/html" -> [err |-> FALSE, mediaType |-> "text/html"]
    [] v = "text/html; charset=utf-8" -> [err |-> FALSE, mediaType |-> "text/html"]
    [] v = "Text/HTML" -> [err |-> FALSE, mediaType |-> "text/html"]
    [] v = "application/json" -> [err |-> FALSE, mediaType |-> "application/json"]
    [] v = "text/plain; charset=utf-8" -> [err |-> FALSE, mediaType |-> "text/plain"]
    [] v = "text/plain" -> [err |-> FALSE, mediaType |-> "text/plain"]
    [] v = "text/html; charset" -> [err |-> TRUE, mediaType |-> "text/html"]
    [] v = "" -> [err |-> TRUE, mediaType |-> ""]

\* every response is admitted
ShouldBufferAny(code, header) == TRUE

\* the recorder's admission predicate (lines 46-61)
ShouldBuffer(code, header) ==
  IF Len(MIMETypes) = 0 THEN TRUE
  ELSE LET parsed == ParseMediaType(HeaderGet(header, "Content-Type"))
       IN IF parsed.err THEN FALSE
          ELSE \E i \in 1..Len(MIMETypes) : parsed.mediaType = MIMETypes[i]

(***************************************************************************)
(* net/url: url.Parse on a URL text <<scheme, "://", host, path>>.         *)
(***************************************************************************)
UrlParse(u) ==
  IF Len(u) = 4 /\ u[2] = "://" /\ u[3] \in Hosts
  THEN [err |-> FALSE, Scheme |-> u[1], Host |-> u[3]]
  ELSE [err |-> TRUE, Scheme |-> "", Host |-> ""]

\* middleware_serve_http.go:72-78
SchemeOf(r) == IF r.TLS THEN "https" ELSE "http"

NavigateURL(r) == << SchemeOf(r), "://", RequestHost, RequestURI >>

\* pausedURL.Scheme + "://" + pausedURL.Host
OriginOf(parsed) == << parsed.Scheme, "://", parsed.Host >>

\* slices.Contains
Contains(list, x) == \E i \in DOMAIN list : list[i] = x

\* middleware_serve_http.go:264-275
shouldHandleResourceType(resourceType) ==
  CASE resourceType = "Script" -> TRUE
    [] resourceType = "XHR" -> TRUE
    [] resourceType = "Fetch" -> TRUE
    [] OTHER -> FALSE

(***************************************************************************)
(* links: the Link Set, a map from URL or origin to relAs.                 *)
(***************************************************************************)
newLinks == EmptyMap

AddResource(l, url, resourceType) ==
  CASE resourceType = "Font" -> MapPut(l, url, "font")
    [] resourceType = "Image" -> MapPut(l, url, "image")
    [] resourceType = "Script" -> MapPut(l, url, "script")
    [] resourceType = "Stylesheet" -> MapPut(l, url, "style")
    [] OTHER -> l

AddPreconnect(l, origin) == MapPut(l, origin, "preconnect")

(***************************************************************************)
(* The branch a router worker takes for an event whose URL parsed          *)
(* (middleware_serve_http.go:118-179), as the code's if / else-if chain.   *)
(***************************************************************************)
BranchContinueFirst(ev, parsed, r) ==
  IF ev.URL = NavigateURL(r) THEN "navigation"
  ELSE IF shouldHandleResourceType(ev.ResourceType)
          /\ Contains(ContinueHosts, parsed.Host)
  THEN "continue"
  ELSE IF shouldHandleResourceType(ev.ResourceType)
          /\ (parsed.Host = RequestHost \/ Contains(FulfillHosts, parsed.Host))
  THEN "replay"
  ELSE "block"

BranchBlockedAsContinue(ev, parsed, r) ==
  IF ev.URL = NavigateURL(r) THEN "navigation"
  ELSE IF shouldHandleResourceType(ev.ResourceType)
          /\ (parsed.Host = RequestHost \/ Contains(FulfillHosts, parsed.Host))
  THEN "replay"
  ELSE "continue"

Branch(ev, parsed, r) ==
  IF ev.URL = NavigateURL(r) THEN "navigation"
  ELSE IF shouldHandleResourceType(ev.ResourceType)
          /\ (parsed.Host = RequestHost \/ Contains(FulfillHosts, parsed.Host))
  THEN "replay"
  ELSE IF shouldHandleResourceType(ev.ResourceType)
          /\ Contains(ContinueHosts, parsed.Host)
  THEN "continue"
  ELSE "block"

\* the Link Set after the branch recorded its hint (lines 122-126, 151, 164-168)
RecordHintNoPreconnect(l, ev, parsed, branch) ==
  IF branch = "navigation" \/ branch = "continue" THEN l
  ELSE IF parsed.Host = RequestHost THEN AddResource(l, ev.URL, ev.ResourceType)
  ELSE AddPreconnect(l, OriginOf(parsed))

RecordHint(l, ev, parsed, branch) ==
  IF branch = "navigation" THEN l
  ELSE IF branch = "continue" THEN AddPreconnect(l, OriginOf(parsed))
  ELSE IF parsed.Host = RequestHost THEN AddResource(l, ev.URL, ev.ResourceType)
  ELSE AddPreconnect(l, OriginOf(parsed))

(***************************************************************************)
(* responseWriter (response.go:14-38): the SubResponse a replayed          *)
(* request is captured in.                                                 *)
(***************************************************************************)
\* &responseWriter{header: make(http.Header)}: status is Go's zero value
NewResponseWriter == [status |-> 0, header |-> EmptyMap, buffer |-> <<>>]

RW_HeaderAdd(rw, name, value) ==
  [rw EXCEPT !.header =
     MapPut(rw.header, name,
            IF name \in DOMAIN rw.header THEN Append(rw.header[name], value)
            ELSE << value >>)]

RW_Write(rw, data) == [rw EXCEPT !.buffer = rw.buffer \o data]

RW_WriteHeader(rw, statusCode) == [rw EXCEPT !.status = statusCode]

\* one call of the handler on its http.ResponseWriter
ApplyCall(rw, call) ==
  CASE call.op = "Header.Add" -> RW_HeaderAdd(rw, call.name, call.value)
    [] call.op = "WriteHeader" -> RW_WriteHeader(rw, call.code)
    [] call.op = "Write" -> RW_Write(rw, call.data)

RECURSIVE ApplyCalls(_, _)
ApplyCalls(rw, calls) ==
  IF calls = <<>> THEN rw
  ELSE ApplyCalls(ApplyCall(rw, Head(calls)), Tail(calls))

CallAdd(n, v) == [op |-> "Header.Add", name |-> n, value |-> v, code |-> 0, data |-> <<>>]
CallWriteHeader(c) == [op |-> "WriteHeader", name |-> "", value |-> "", code |-> c, data |-> <<>>]
CallWrite(d) == [op |-> "Write", name |-> "", value |-> "", code |-> 0, data |-> d]

(***************************************************************************)
(* What the server's root handler may do with a replayed request: the      *)
(* calls it makes on the ResponseWriter.  "echo" is the test server's      *)
(* `respond {http.request.body}`; "write_only" and "nothing" are handlers  *)
(* that never call WriteHeader, which net/http answers with 200.           *)
(***************************************************************************)
HandlerKinds == { "respond", "not_found", "echo", "write_only", "nothing" }

LongestBody == SubSeq(SampleBytes, 1, MaxBodyLen)

HandlerCalls(kind, subReq) ==
  CASE kind = "respond" ->
         << CallAdd("Content-Type", "application/json"),
            CallWriteHeader(200), CallWrite(LongestBody) >>
    [] kind = "not_found" ->
         << CallAdd("Set-Cookie", "a=1"), CallAdd("Set-Cookie", "b=2"),
            CallWriteHeader(404) >>
    [] kind = "echo" ->
         << CallWriteHeader(200), CallWrite(subReq.Body) >>
    [] kind = "write_only" ->
         << CallAdd("Content-Type", "text/plain"), CallWrite(<< 77 >>) >>
    [] kind = "nothing" -> <<>>

\* the status an HTTP client of the handler sees (net/http: the first
\* WriteHeader, or 200 when the handler never calls it)
RECURSIVE AnsweredStatus(_)
AnsweredStatus(calls) ==
  IF calls = <<>> THEN 200
  ELSE IF Head(calls).op = "WriteHeader" THEN Head(calls).code
  ELSE IF Head(calls).op = "Write" THEN 200
  ELSE AnsweredStatus(Tail(calls))

\* the body and headers an HTTP client of the handler sees
RECURSIVE AnsweredBody(_)
AnsweredBody(calls) ==
  IF calls = <<>> THEN <<>>
  ELSE (IF Head(calls).op = "Write" THEN Head(calls).data ELSE <<>>)
         \o AnsweredBody(Tail(calls))

(***************************************************************************)
(* http.NewRequestWithContext and the header copy of lines 128-142.        *)
(***************************************************************************)
\* net/http validMethod: a method must be a token
ValidMethod(method) == method \in { "GET", "POST", "PUT", "DELETE" }

\* textproto.CanonicalMIMEHeaderKey on the header names the page sends
CanonicalKey(name) ==
  CASE name = "accept" -> "Accept"
    [] name = "content-type" -> "Content-Type"
    [] OTHER -> name

RECURSIVE HeaderFromEvent(_, _)
HeaderFromEvent(headers, names) ==
  IF names = {} THEN EmptyMap
  ELSE LET n == CHOOSE x \in names : TRUE
       IN MapPut(HeaderFromEvent(headers, names \ {n}),
                 CanonicalKey(n), << headers[n] >>)

NoRequest ==
  [Method |-> "", URL |-> <<>>, Header |-> EmptyMap, hasBody |-> FALSE,
   Body |-> <<>>, ctx |-> "none"]

SubRequest(ev) ==
  [Method |-> ev.Method, URL |-> ev.URL,
   Header |-> HeaderFromEvent(ev.Headers, DOMAIN ev.Headers),
   hasBody |-> ev.HasPostData,
   Body |-> IF ev.HasPostData THEN ev.PostData ELSE <<>>,
   ctx |-> "reqContext"]

(***************************************************************************)
(* The fulfillRequest a worker builds from a response (lines 181-188).     *)
(* ResponseHeaders is kept as the set of <<name, position, value>>         *)
(* entries: Go ranges over the header map in no fixed order.               *)
(***************************************************************************)
Flatten(header) ==
  UNION { { << n, i, header[n][i] >> : i \in DOMAIN header[n] } : n \in DOMAIN header }

FulfillRequest(id, res) ==
  [kind |-> "fulfillRequest", RequestID |-> id, ResponseCode |-> res.status,
   ResponseHeaders |-> Flatten(res.header), Body |-> Base64Encode(res.buffer),
   reason |-> ""]

ContinueRequest(id) ==
  [kind |-> "continueRequest", RequestID |-> id, ResponseCode |-> 0,
   ResponseHeaders |-> {}, Body |-> <<>>, reason |-> ""]

FailRequest(id, reason) ==
  [kind |-> "failRequest", RequestID |-> id, ResponseCode |-> 0,
   ResponseHeaders |-> {}, Body |-> <<>>, reason |-> reason]

(***************************************************************************)
(* The settlement script js/on_new_document.js.  A promise is named by a   *)
(* number; 0 names an already resolved promise (Promise.resolve()).        *)
(***************************************************************************)
ResolvedPromise == 0

\* window.CaddyChrome = {...} (lines 1-8)
NewCaddyChrome ==
  [pendingTask |-> ResolvedPromise, events |-> 0, pending |-> 0, failed |-> 0,
   resolve |-> ResolvedPromise, reject |-> ResolvedPromise]

OnPendingTaskAlwaysAllocates(cc) ==
  [cc EXCEPT !.events = cc.events + 1,
             !.pendingTask = cc.events + 1,
             !.resolve = cc.events + 1,
             !.reject = cc.events + 1,
             !.pending = cc.pending + 1]

\* the listener up to `await ev.complete` (lines 12-21)
OnPendingTask(cc) ==
  IF cc.pending = 0
  THEN [cc EXCEPT !.events = cc.events + 1,
                  !.pendingTask = cc.events + 1,
                  !.resolve = cc.events + 1,
                  !.reject = cc.events + 1,
                  !.pending = cc.pending + 1]
  ELSE [cc EXCEPT !.events = cc.events + 1,
                  !.pending = cc.pending + 1]

AfterAwaitLeaksOnReject(cc, rejected) ==
  [cc EXCEPT !.failed = IF rejected THEN cc.failed + 1 ELSE cc.failed,
             !.pending = IF rejected THEN cc.pending ELSE cc.pending - 1]

\* the listener after `await ev.complete` settled: catch, finally (lines 24-28)
AfterAwait(cc, rejected) ==
  [cc EXCEPT !.failed = IF rejected THEN cc.failed + 1 ELSE cc.failed,
             !.pending = cc.pending - 1]

\* how the batch promise is settled when pending is back to 0 (lines 30-35)
Settlement(cc) == IF cc.failed = 0 THEN "resolved" ELSE "rejected"

AfterSettlementKeepsFailed(cc) ==
  [cc EXCEPT !.resolve = ResolvedPromise,
             !.reject = ResolvedPromise, !.pendingTask = ResolvedPromise]

\* the reset of lines 36-39
AfterSettlement(cc) ==
  [cc EXCEPT !.failed = 0, !.resolve = ResolvedPromise,
             !.reject = ResolvedPromise, !.pendingTask = ResolvedPromise]

(***************************************************************************)
(* The chromedp task list ServeHTTP builds (lines 97-231).                 *)
(***************************************************************************)
Tasks(r) ==
  << "Fetch.enable", "Runtime.enable", "ListenTarget" >>
    \o [i \in 1..Len(r.Cookies) |-> "Network.setCookie"]
    \o (IF r.UserAgent # "" THEN << "Emulation.setUserAgentOverride" >> ELSE <<>>)
    \o << "Page.addScriptToEvaluateOnNewDocument", "Navigate", "Evaluate",
          "QueryAfter" >>

\* tasks that are one CDP command and nothing else
PlainCommands ==
  { "Fetch.enable", "Runtime.enable", "Network.setCookie",
    "Emulation.setUserAgentOverride", "Page.addScriptToEvaluateOnNewDocument" }

(***************************************************************************)
(* The requestPaused events the page can cause.                            *)
(***************************************************************************)
PausedURLs(r) ==
  { << sch, "://", RequestHost, RequestURI >> : sch \in { "http", "https" } }
    \cup { << SchemeOf(r), "://", RequestHost, "/app.js" >> }
    \cup { << "https", "://", h, "/x" >> : h \in (Hosts \ {RequestHost}) \cup {BadHost} }

RequestIDOf(i) == << "interception-job", i >>

GetHeaders == [x \in {"Accept"} |-> "*/*"]

PostHeaders ==
  [x \in {"Accept", "content-type"} |-> IF x = "Accept" THEN "*/*" ELSE "text/plain"]

SamplePostData == << 77, 97 >>

MainDocumentEvent(r, i) ==
  [RequestID |-> RequestIDOf(i), URL |-> NavigateURL(r), Method |-> "GET",
   Headers |-> GetHeaders, HasPostData |-> FALSE, PostData |-> <<>>,
   ResourceType |-> "Document"]

PageEvents(r, i) ==
  { [RequestID |-> RequestIDOf(i), URL |-> u, Method |-> "GET",
     Headers |-> GetHeaders, HasPostData |-> FALSE, PostData |-> <<>>,
     ResourceType |-> t] : u \in PausedURLs(r), t \in ResourceTypes }
  \cup
  { [RequestID |-> RequestIDOf(i), URL |-> u, Method |-> "POST",
     Headers |-> PostHeaders, HasPostData |-> TRUE, PostData |-> SamplePostData,
     ResourceType |-> t] : u \in PausedURLs(r), t \in { "XHR", "Fetch" } }

\* the requests of a page that calls an API and pulls a stylesheet, from
\* the request host and from a continue host
OverlapEvents(r, i) ==
  { ev \in PageEvents(r, i) :
      /\ ev.URL[3] \in { RequestHost, "cdn.example.com" }
      /\ ev.URL[4] # RequestURI
      /\ ev.ResourceType \in { "XHR", "Stylesheet" }
      /\ ~ev.HasPostData }

(***************************************************************************)
(* The configuration: Middleware.UnmarshalCaddyfile and Provision          *)
(* (response.go:258-437).  A Caddyfile token is a sequence of pieces, so   *)
(* that a prefix test and a split at "=" work on it: --lang=en is          *)
(* <<"--", "lang", "=", "en">>.  A pointer field is <<>> when nil and      *)
(* <<record>> when set.                                                    *)
(***************************************************************************)
NilPointer == << >>

\* new(Middleware): every field has Go's zero value (Links is mLinks)
NewMiddleware ==
  [Timeout |-> << >>, MIMETypes |-> << >>, ExecBrowser |-> NilPointer,
   RemoteBrowser |-> NilPointer, FulfillHosts |-> << >>, ContinueHosts |-> << >>]

SeqsUpTo(S, n) == UNION { [1..k -> S] : k \in 0..n }

\* the lines a chrome block may hold: the directive and its arguments
BlockLines ==
  { << << name >> >> \o args :
      name \in { "exec", "exec_no_default_flags" },
      args \in SeqsUpTo({ << "/usr/bin/chrome" >>, << "--" >>, << "--", "headless" >>,
                          << "--", "lang", "=", "en" >> }, MaxArgs) }
  \cup { << << "url" >> >> \o args :
           args \in SeqsUpTo({ << "http://localhost:9222/" >> }, 2) }
  \cup { << << "timeout" >> >> \o args :
           args \in { << >>, << << "10s" >> >>, << << "soon" >> >> } }
  \cup { << << "mime_types" >> >> \o args :
           args \in SeqsUpTo({ << "text/html" >> }, 1) }
  \cup { << << name >>, << "app.example.com" >> >> :
           name \in { "fulfill_hosts", "continue_hosts" } }
  \cup { << << "links" >> >> \o args : args \in SeqsUpTo({ << "on" >> }, 1) }
  \cup { << << "headless" >> >> }

\* the dispenser's token list: every token with the line it stands on
RECURSIVE TokensOf(_, _)
TokensOf(lines, n) ==
  IF n > Len(lines) THEN << >>
  ELSE [i \in 1..Len(lines[n]) |-> [Text |-> lines[n][i], Line |-> n]]
         \o TokensOf(lines, n + 1)

\* d.CountRemainingArgs(): the tokens after the cursor on the cursor's line
CountRemainingArgs(tokens, cursor) ==
  Cardinality({ k \in (cursor + 1)..Len(tokens) : tokens[k].Line = tokens[cursor].Line })

\* d.RemainingArgs(): their texts; the cursor ends on the last of them
RemainingArgs(tokens, cursor) ==
  [i \in 1..CountRemainingArgs(tokens, cursor) |-> tokens[cursor + i].Text]

\* strings.HasPrefix(d.Val(), "--")
HasPrefix(token, prefix) == Len(token) > 0 /\ token[1] = prefix

\* the loop over the arguments of exec (lines 402-414)
RECURSIVE ExecArgs(_, _, _, _)
ExecArgs(eb, args, i, flags) ==
  IF i > Len(args) THEN eb
  ELSE LET val == args[i]
           nowFlags == flags \/ HasPrefix(val, "--")
       IN IF val = << "--" >> THEN ExecArgs(eb, args, i + 1, nowFlags)
          ELSE IF nowFlags
          THEN ExecArgs([eb EXCEPT !.Flags = Append(eb.Flags, val)], args, i + 1, nowFlags)
          ELSE ExecArgs([eb EXCEPT !.Path = val], args, i + 1, nowFlags)

NewExecBrowserDefault(defaultFlags) ==
  [Path |-> << >>, DefaultFlags |-> TRUE, Flags |-> << >>]

NewExecBrowser(defaultFlags) ==
  [Path |-> << >>, DefaultFlags |-> defaultFlags, Flags |-> << >>]

\* one pass of the directive switch (lines 383-433) on the token under the
\* cursor: the configuration after it, the cursor after it, and whether
\* d.ArgErr() is returned
Directive(st, tokens) ==
  LET c == st.cursor
      val == tokens[c].Text
      n == CountRemainingArgs(tokens, c)
      args == RemainingArgs(tokens, c)
  IN CASE val = << "timeout" >> ->
            IF n = 0 THEN [st EXCEPT !.err = TRUE]
            ELSE [st EXCEPT !.m.Timeout = tokens[c + 1].Text, !.cursor = c + 1]
       [] val = << "mime_types" >> ->
            [st EXCEPT !.m.MIMETypes = args, !.cursor = c + n, !.err = (n = 0)]
       [] val \in { << "exec" >>, << "exec_no_default_flags" >> } ->
            [st EXCEPT !.m.ExecBrowser =
                          << ExecArgs(NewExecBrowser(val = << "exec" >>), args, 1, FALSE) >>,
                       !.cursor = c + n]
       [] val = << "url" >> ->
            IF n # 1 THEN [st EXCEPT !.m.RemoteBrowser = << [URL |-> << >>] >>, !.err = TRUE]
            ELSE [st EXCEPT !.m.RemoteBrowser = << [URL |-> args[1]] >>, !.cursor = c + 1]
       [] val = << "fulfill_hosts" >> ->
            [st EXCEPT !.m.FulfillHosts = st.m.FulfillHosts \o args, !.cursor = c + n]
       [] val = << "continue_hosts" >> ->
            [st EXCEPT !.m.ContinueHosts = st.m.ContinueHosts \o args, !.cursor = c + n]
       [] val = << "links" >> ->
            [st EXCEPT !.links = TRUE, !.err = (n # 0)]
       [] OTHER -> [st EXCEPT !.err = TRUE]

\* the d.NextBlock loop (line 382): the next token, wherever it stands, is
\* the next directive
RECURSIVE NextBlock(_, _)
NextBlock(st, tokens) ==
  IF st.err \/ st.cursor >= Len(tokens) THEN st
  ELSE NextBlock(Directive([st EXCEPT !.cursor = st.cursor + 1], tokens), tokens)

\* m.UnmarshalCaddyfile(d) on a new Middleware
UnmarshalCaddyfile(lines) ==
  NextBlock([m |-> NewMiddleware, links |-> FALSE, cursor |-> 0, err |-> FALSE],
            TokensOf(lines, 1))

\* time.ParseDuration on the timeout texts of the model
ParseDuration(text) ==
  IF text = << "10s" >> THEN [err |-> FALSE, seconds |-> 10]
  ELSE [err |-> TRUE, seconds |-> 0]

\* strings.SplitN(flag, "=", 2): the flag cut at its first "="
SplitN2(flag) ==
  LET equals == { i \in 1..Len(flag) : flag[i] = "=" }
      first == CHOOSE i \in equals : \A k \in equals : i <= k
  IN IF equals = { } THEN << flag >>
     ELSE << SubSeq(flag, 1, first - 1), SubSeq(flag, first + 1, Len(flag)) >>

FlagOptions(flags) ==
  IF \E i \in 1..Len(flags) : Len(SplitN2(flags[i])) < 2
  THEN [panic |-> TRUE, opts |-> << >>]
  ELSE [panic |-> FALSE,
        opts |-> [i \in 1..Len(flags) |->
                    [flag |-> SplitN2(flags[i])[1], value |-> SplitN2(flags[i])[2]]]]

\* Provision up to the allocator (lines 289-331): the configuration with its
\* defaults, and how far it gets: "config error", "duration error",
\* "panic", or "allocated" with the allocator made
ProvisionConfig(m) ==
  LET m1 == IF Len(m.MIMETypes) = 0 THEN [m EXCEPT !.MIMETypes = << << "text/html" >> >>] ELSE m
      m2 == IF m1.ExecBrowser = NilPointer /\ m1.RemoteBrowser = NilPointer
            THEN [m1 EXCEPT !.ExecBrowser = << NewExecBrowser(TRUE) >>]
            ELSE m1
      ExecOptions(eb) ==
        (IF eb.Path # << >> THEN << [flag |-> << "ExecPath" >>, value |-> eb.Path] >> ELSE << >>)
          \o (IF eb.DefaultFlags
              THEN << [flag |-> << "DefaultExecAllocatorOptions" >>, value |-> << >>] >>
              ELSE << >>)
          \o FlagOptions(eb.Flags).opts
  IN IF m2.ExecBrowser # NilPointer /\ m2.RemoteBrowser # NilPointer
     THEN [m |-> m2, outcome |-> "config error", allocator |-> NilPointer]
     ELSE IF m2.Timeout # << >> /\ ParseDuration(m2.Timeout).err
     THEN [m |-> m2, outcome |-> "duration error", allocator |-> NilPointer]
     ELSE IF m2.ExecBrowser # NilPointer
     THEN IF FlagOptions(m2.ExecBrowser[1].Flags).panic
          THEN [m |-> m2, outcome |-> "panic", allocator |-> NilPointer]
          ELSE [m |-> m2, outcome |-> "allocated",
                allocator |-> << [kind |-> "exec", opts |-> ExecOptions(m2.ExecBrowser[1]),
                                  url |-> << >>] >>]
     ELSE [m |-> m2, outcome |-> "allocated",
           allocator |-> << [kind |-> "remote", opts |-> << >>,
                             url |-> m2.RemoteBrowser[1].URL] >>]

(***************************************************************************)
(* The DOM serializer (dom_serializer.go:1-193).  A string is a sequence   *)
(* of pieces: single characters where the code looks at characters (text,  *)
(* attribute values, element names), whole literals otherwise.  The state  *)
(* threaded through the functions is the serializer's two flags, what the  *)
(* writer has been given, and the error being returned: once err is set    *)
(* every later step is skipped, as the code returns at once.               *)
(***************************************************************************)
voidElements ==
  { << "a", "r", "e", "a" >>, << "b", "a", "s", "e" >>, << "b", "r" >>,
    << "c", "o", "l" >>, << "e", "m", "b", "e", "d" >>, << "h", "r" >>,
    << "i", "m", "g" >>, << "i", "n", "p", "u", "t" >>, << "l", "i", "n", "k" >>,
    << "m", "e", "t", "a" >>, << "p", "a", "r", "a", "m" >>,
    << "s", "o", "u", "r", "c", "e" >>, << "t", "r", "a", "c", "k" >>,
    << "w", "b", "r" >> }

\* strings.ToLower on the letters A-Z
ToLower(name) ==
  LET upper == << "A","B","C","D","E","F","G","H","I","J","K","L","M",
                  "N","O","P","Q","R","S","T","U","V","W","X","Y","Z" >>
      lower == << "a","b","c","d","e","f","g","h","i","j","k","l","m",
                  "n","o","p","q","r","s","t","u","v","w","x","y","z" >>
      one(c) == IF \E k \in 1..26 : upper[k] = c
                THEN lower[CHOOSE k \in 1..26 : upper[k] = c]
                ELSE c
  IN [i \in 1..Len(name) |-> one(name[i])]

EscapeStringNone(text) == text

\* html.EscapeString
EscapeString(text) ==
  [i \in 1..Len(text) |->
     CASE text[i] = "&" -> "&amp;"
       [] text[i] = "'" -> "&#39;"
       [] text[i] = "<" -> "&lt;"
       [] text[i] = ">" -> "&gt;"
       [] text[i] = "\"" -> "&#34;"
       [] OTHER -> text[i]]

\* a cdp.Node: the fields the serializer reads
\* (value: the NodeValue, for a shadow root its ShadowRootType)
Node(type, name, value, attributes, shadowRoots, children) ==
  [NodeType |-> type, NodeName |-> name, LocalName |-> name,
   NodeValue |-> IF type = "DocumentFragment" THEN << >> ELSE value,
   ShadowRootType |-> IF type = "DocumentFragment" THEN value ELSE << >>,
   Attributes |-> attributes, ShadowRoots |-> shadowRoots, Children |-> children]

\* w.Write(bytes) while `node` is being serialized: the failAt-th Write of
\* the writer returns an error.  What is written is kept with the place of
\* the node in the tree and the value of noEscape at that moment.
Write(st, at, bytes) ==
  IF st.err THEN st
  ELSE IF Len(st.written) + 1 = st.failAt THEN [st EXCEPT !.err = TRUE]
  ELSE [st EXCEPT !.written =
          Append(@, [at |-> at, bytes |-> bytes, noEscape |-> st.noEscape])]

RECURSIVE serializeNode(_, _, _)
RECURSIVE serializeChildren(_, _, _, _)

\* line 97
isVoidExact(localName) == localName \in voidElements

isVoid(localName) == ToLower(localName) \in voidElements

\* line 109: the shadow roots that are serialized
shadowRootAlways(shadowRoot) == TRUE

shadowRootEmitted(shadowRoot) ==
  shadowRoot.ShadowRootType \in { << "open" >>, << "closed" >> }

serializeDocumentTypeNodeForgets(st, node, at) ==
  Write(Write(Write(st, at, << "<!DOCTYPE " >>), at, node.NodeName), at, << ">" >>)

\* lines 168-180
serializeDocumentTypeNode(st, node, at) ==
  LET done == Write(Write(Write(st, at, << "<!DOCTYPE " >>), at, node.NodeName), at, << ">" >>)
  IN IF done.err THEN done ELSE [done EXCEPT !.doctypeWritten = TRUE]

serializeTextNodeEscaped(st, node, at) ==
  Write(st, at, EscapeString(node.NodeValue))

\* lines 182-193
serializeTextNode(st, node, at) ==
  Write(st, at, IF st.noEscape THEN node.NodeValue ELSE EscapeString(node.NodeValue))

\* lines 60-157; the place of the i-th child of a node is the node's place
\* with i appended, that of its j-th shadow root the place with -j appended
serializeElementNode(st, node, at) ==
  LET localName == node.LocalName
      doctype == IF st.doctypeWritten \/ st.err THEN st
                 ELSE LET d == Write(st, at, << "<!DOCTYPE html>" >>)
                      IN IF d.err THEN d ELSE [d EXCEPT !.doctypeWritten = TRUE]
      tag == Write(Write(doctype, at, << "<" >>), at, localName)
      RECURSIVE attributes(_, _)
      attributes(a, i) ==
        IF i >= Len(node.Attributes) THEN a
        ELSE LET named == Write(Write(a, at, << " " >>), at, node.Attributes[i])
             IN attributes(
                  IF node.Attributes[i + 1] # << >>
                  THEN Write(Write(Write(named, at, << "=\"" >>), at,
                                   EscapeString(node.Attributes[i + 1])), at, << "\"" >>)
                  ELSE named,
                  i + 2)
      start == Write(attributes(tag, 1), at, IF isVoid(localName) THEN << " />" >> ELSE << ">" >>)
      RECURSIVE shadowRoots(_, _)
      shadowRoots(a, j) ==
        IF j > Len(node.ShadowRoots) THEN a
        ELSE LET shadowRoot == node.ShadowRoots[j]
             IN IF ~shadowRootEmitted(shadowRoot)
                THEN shadowRoots(a, j + 1)
                ELSE shadowRoots(
                       Write(serializeNode(
                               Write(Write(Write(a, at, << "<template shadowrootmode=\"" >>),
                                           at, shadowRoot.ShadowRootType), at, << "\">" >>),
                               shadowRoot, Append(at, 0 - j)),
                             at, << "</template>" >>),
                       j + 1)
      shadowed == shadowRoots(start, 1)
      raw == ~shadowed.err
               /\ localName \in { << "s","c","r","i","p","t" >>, << "s","t","y","l","e" >> }
      children == serializeChildren(
                    IF raw THEN [shadowed EXCEPT !.noEscape = TRUE] ELSE shadowed, node, at, 1)
      ended == IF isVoid(localName) THEN children
               ELSE Write(Write(Write(children, at, << "</" >>), at, localName), at, << ">" >>)
  IN \* the deferred function of lines 135-137 runs on every return
     IF raw THEN [ended EXCEPT !.noEscape = shadowed.noEscape] ELSE ended

\* lines 159-166, from the i-th child on
serializeChildren(st, node, at, i) ==
  IF st.err \/ i > Len(node.Children) THEN st
  ELSE serializeChildren(serializeNode(st, node.Children[i], Append(at, i)), node, at, i + 1)

serializeNodeSkipsUnknown(st, node, at) ==
  IF st.err THEN st
  ELSE CASE node.NodeType = "Element" -> serializeElementNode(st, node, at)
         [] node.NodeType = "Text" -> serializeTextNode(st, node, at)
         [] node.NodeType = "Document" -> serializeChildren(st, node, at, 1)
         [] node.NodeType = "DocumentType" -> serializeDocumentTypeNode(st, node, at)
         [] node.NodeType = "DocumentFragment" -> serializeChildren(st, node, at, 1)
         [] OTHER -> st

\* lines 39-58
serializeNode(st, node, at) ==
  IF st.err THEN st
  ELSE CASE node.NodeType = "Element" -> serializeElementNode(st, node, at)
         [] node.NodeType = "Text" -> serializeTextNode(st, node, at)
         [] node.NodeType = "Document" -> serializeChildren(st, node, at, 1)
         [] node.NodeType = "DocumentType" -> serializeDocumentTypeNode(st, node, at)
         [] node.NodeType = "DocumentFragment" -> serializeChildren(st, node, at, 1)
         [] OTHER -> [st EXCEPT !.err = TRUE]

(***************************************************************************)
(* The trees the model serializes: a document holds its doctype if it has  *)
(* one, then what a parser may leave before the document element (a        *)
(* comment), then the document element, which is one that has attributes,  *)
(* one that has children, or one that hosts shadow roots.                  *)
(***************************************************************************)
Documents ==
  LET Element(name, attributes, shadowRoots, children) ==
        Node("Element", name, << >>, attributes, shadowRoots, children)
      TextNodes ==
        { Node("Text", << "#text" >>, value, << >>, << >>, << >>) :
            value \in { << "a", "<", "b" >>, << "&", "'" >> } }
      aText == CHOOSE t \in TextNodes : TRUE
      CommentNode == Node("Comment", << "#comment" >>, << "c" >>, << >>, << >>, << >>)
      \* name/value lists as the snapshot gives them: name1, value1, name2, ...
      pairs == { << << "hidden" >>, << >> >>,
                 << << "foo:bar" >>, << "a", "\"", "&", "b" >> >> }
      RECURSIVE flat(_)
      flat(ps) == IF ps = << >> THEN << >> ELSE Head(ps) \o flat(Tail(ps))
      AttributeLists == { flat(ps) : ps \in SeqsUpTo(pairs, MaxAttributes) }
      \* the elements below the document element
      InnerElements ==
        { Element(<< "b" >>, << >>, << >>, << t >>) : t \in TextNodes }
          \cup { Element(<< "s","c","r","i","p","t" >>, << >>, << >>, << t >>) : t \in TextNodes }
          \cup { Element(<< "b", "r" >>, << >>, << >>, << >>) }
      ShadowRoots ==
        { Node("DocumentFragment", << "#document-fragment" >>, type, << >>, << >>, c) :
            type \in { << "open" >>, << "closed" >>, << "user-agent" >> },
            c \in { << >>, << Element(<< "b" >>, << >>, << >>, << aText >>) >>,
                    << CommentNode >> } }
      DocumentElements ==
        { Element(name, a, << >>, << >>) :
            name \in { << "d","i","v" >>, << "i","m","g" >>, << "I","M","G" >> },
            a \in AttributeLists }
        \cup
        { Element(name, << >>, << >>, c) :
            name \in { << "d","i","v" >>, << "s","c","r","i","p","t" >>,
                       << "s","t","y","l","e" >>, << "B","r" >> },
            c \in SeqsUpTo(TextNodes \cup { CommentNode } \cup InnerElements, MaxChildren) }
        \cup
        { Element(<< "d","i","v" >>, << >>, sr, c) :
            sr \in SeqsUpTo(ShadowRoots, MaxShadowRoots),
            c \in SeqsUpTo({ aText }, 1) }
  IN { Node("Document", << "#document" >>, << >>, << >>, << >>, doctype \o comment \o << e >>) :
         doctype \in { << >> } \cup
                     { << Node("DocumentType", name, << >>, << >>, << >>, << >>) >> :
                         name \in { << "html" >>, << "svg" >> } },
         comment \in { << >>, << CommentNode >> },
         e \in DocumentElements }

(***************************************************************************)
(* State.                                                                  *)
(***************************************************************************)
VARIABLES
  serializer,   \* the domSerializer: root, doctypeWritten, noEscape
  writer,       \* the io.Writer Serialize is given: what it holds, when it fails
  serializeErr, \* what Serialize returned: "not called", "nil", "error"
  dispenser,    \* the lines of the chrome block UnmarshalCaddyfile is given
  m,            \* the Middleware's configuration fields
  phase,        \* how far the module's life has got
  chromeCtx,    \* m.chromeCtx: nil, or the allocator the browser runs under
  exceptions,   \* Runtime.exceptionThrown events the listener has been given
  mLinks,       \* m.Links: the `links` option of the configuration
  upstream,     \* what the next handler answers when it is called
  req,          \* r: the client request
  pc,           \* where ServeHTTP is
  recorder,     \* the response recorder around the pooled buffer
  w,            \* the client's http.ResponseWriter
  result,       \* what ServeHTTP returns
  session,      \* the per-request browser context: "none", "open", "closed"
  cancelled,    \* browserCtx is done
  clientDone,   \* r.Context() is done
  task,         \* index of the task chromedp.Run is executing
  listening,    \* the ListenTarget callback is installed
  workers,      \* one record per requestPaused event, in delivery order
  links,        \* links.urls
  doc,          \* the page's main document: "none", "requested", "loaded"
  cc,           \* window.CaddyChrome
  promise,      \* state of each pendingTask promise allocated by the script
  complete,     \* state of each pending-task event's `complete` promise
  batch,        \* the pendingTask promise each event was counted under
  awaited,      \* the promise Runtime.evaluate is awaiting
  responseHTML, \* the DOM snapshot
  workerError   \* a worker hit an internal error while chromedp.Run was running

domVars == << serializer, writer, serializeErr >>
confVars == << dispenser, m, phase, chromeCtx >>

vars ==
  << serializer, writer, serializeErr, dispenser, m, phase, chromeCtx, exceptions, mLinks, upstream, req, pc, recorder, w, result, session, cancelled, clientDone, task,
     listening, workers, links, doc, cc, promise, complete, batch, awaited,
     responseHTML, workerError >>

srvVars ==
  << domVars, confVars, exceptions, mLinks, upstream, req, pc, recorder, w, result, task, listening, responseHTML >>
pageVars == << doc, cc, promise, complete, batch >>

NoRecorder == [buffered |-> FALSE, status |-> 0, header |-> EmptyMap, buffer |-> <<>>]
NoResponse == [wroteHeader |-> FALSE, status |-> 0, header |-> EmptyMap, body |-> <<>>]
NotAwaiting == [waiting |-> FALSE, promise |-> ResolvedPromise]
NoSnapshot == [taken |-> FALSE, hydrated |-> {}]

\* what is written to the client: upstream bytes, the literal
\* "<!doctype html>\n", or the serialized snapshot
BytesChunk(b) == [kind |-> "bytes", bytes |-> b, dom |-> NoSnapshot]
DoctypeChunk == [kind |-> "<!doctype html>\n", bytes |-> <<>>, dom |-> NoSnapshot]
HTMLChunk(html) == [kind |-> "responseHTML", bytes |-> <<>>, dom |-> html]

\* the module as it serves requests: provisioned with the configuration the
\* render model reads, its browser running
Provisioned ==
  /\ dispenser = << >>
  /\ m = [NewMiddleware EXCEPT !.MIMETypes = [i \in 1..Len(MIMETypes) |-> << MIMETypes[i] >>],
                               !.ExecBrowser = << NewExecBrowser(TRUE) >>,
                               !.FulfillHosts = [i \in 1..Len(FulfillHosts) |-> << FulfillHosts[i] >>],
                               !.ContinueHosts = [i \in 1..Len(ContinueHosts) |-> << ContinueHosts[i] >>]]
  /\ phase = "provisioned"
  /\ chromeCtx = ProvisionConfig(m).allocator

\* no request is being served
\* no snapshot is being serialized
NoSerializer ==
  /\ serializer = [root |-> << >>, doctypeWritten |-> FALSE, noEscape |-> FALSE]
  /\ writer = [written |-> << >>, failAt |-> 0]
  /\ serializeErr = "not called"

NoRender ==
  /\ exceptions = 0
  /\ pc = "next"
  /\ recorder = NoRecorder
  /\ w = NoResponse
  /\ result = << "none", "" >>
  /\ session = "none"
  /\ cancelled = FALSE
  /\ clientDone = FALSE
  /\ task = 0
  /\ listening = FALSE
  /\ workers = <<>>
  /\ links = newLinks
  /\ doc = "none"
  /\ cc = NewCaddyChrome
  /\ promise = [p \in 1..MaxTasks |-> "unallocated"]
  /\ complete = [t \in 1..MaxTasks |-> "undispatched"]
  /\ batch = [t \in 1..MaxTasks |-> ResolvedPromise]
  /\ awaited = NotAwaiting
  /\ responseHTML = NoSnapshot
  /\ workerError = FALSE

Init ==
  /\ Provisioned
  /\ mLinks \in BOOLEAN
  /\ upstream \in UpstreamResponses
  /\ req \in ClientRequests
  /\ NoSerializer
  /\ NoRender

(***************************************************************************)
(* ServeHTTP up to chromedp.Run (lines 41-95).                             *)
(***************************************************************************)
UpstreamErrorWrapped ==
  /\ pc = "next"
  /\ result' = << "failed to call next handler", "upstream error" >>
  /\ pc' = "return"
  /\ UNCHANGED << domVars, confVars, exceptions, mLinks, upstream, req, recorder, w, session, cancelled, clientDone, task,
                  listening, workers, links, responseHTML, workerError >>
  /\ UNCHANGED pageVars /\ UNCHANGED awaited

\* next.ServeHTTP returned an error (lines 62-65)
UpstreamError ==
  /\ pc = "next"
  /\ result' = << "upstream error", "" >>
  /\ pc' = "return"
  /\ UNCHANGED << domVars, confVars, exceptions, mLinks, upstream, req, recorder, w, session, cancelled, clientDone, task,
                  listening, workers, links, responseHTML, workerError >>
  /\ UNCHANGED pageVars /\ UNCHANGED awaited

\* the recorder did not buffer: the upstream response went to the client (66-68)
UpstreamPassThrough ==
  /\ pc = "next"
  /\ ~ShouldBuffer(upstream.status, upstream.header)
  /\ w' = [wroteHeader |-> TRUE, status |-> upstream.status,
           header |-> upstream.header, body |-> << BytesChunk(upstream.body) >>]
  /\ result' = << "nil", "" >>
  /\ pc' = "return"
  /\ UNCHANGED << domVars, confVars, exceptions, mLinks, upstream, req, recorder, session, cancelled, clientDone, task,
                  listening, workers, links, responseHTML, workerError >>
  /\ UNCHANGED pageVars /\ UNCHANGED awaited

\* the recorder buffered the upstream response
UpstreamBuffered ==
  /\ pc = "next"
  /\ ShouldBuffer(upstream.status, upstream.header)
  /\ recorder' = [buffered |-> TRUE, status |-> upstream.status,
                  header |-> upstream.header, buffer |-> upstream.body]
  /\ pc' = "open"
  /\ UNCHANGED << domVars, confVars, exceptions, mLinks, upstream, req, w, result, session, cancelled, clientDone, task,
                  listening, workers, links, responseHTML, workerError >>
  /\ UNCHANGED pageVars /\ UNCHANGED awaited

\* lines 72-95: navigateURL, timeoutCtx, browserCtx, the watchdog, newLinks
OpenSession ==
  /\ pc = "open"
  /\ session' = "open"
  /\ links' = newLinks
  /\ task' = 1
  /\ pc' = "run"
  /\ UNCHANGED << domVars, confVars, exceptions, mLinks, upstream, req, recorder, w, result, cancelled, clientDone, listening,
                  workers, responseHTML, workerError >>
  /\ UNCHANGED pageVars /\ UNCHANGED awaited

\* the watchdog of lines 89-92: the client's context is done
\* an unrecovered panic in any goroutine ends the process and all its work
ProcessAlive == pc # "panicked"

ClientCancel ==
  /\ ProcessAlive
  /\ session = "open"
  /\ ~clientDone
  /\ clientDone' = TRUE
  /\ cancelled' = TRUE
  /\ UNCHANGED << workers, links, session, awaited, workerError >>
  /\ UNCHANGED srvVars /\ UNCHANGED pageVars

\* the deadline of timeoutCtx (line 82) expires
Deadline ==
  /\ ProcessAlive
  /\ session = "open"
  /\ ~cancelled
  /\ cancelled' = TRUE
  /\ UNCHANGED << workers, links, session, clientDone, awaited, workerError >>
  /\ UNCHANGED srvVars /\ UNCHANGED pageVars

(***************************************************************************)
(* chromedp.Run(browserCtx, tasks) (line 232): the tasks run in order; a   *)
(* CDP command on a done context returns the context's error.              *)
(***************************************************************************)
RunningAnyTask(name) == pc = "run" /\ task <= Len(Tasks(req))

Running(name) == pc = "run" /\ task <= Len(Tasks(req)) /\ Tasks(req)[task] = name

CommandGuardIgnoresCancel == TRUE

\* a CDP command can only succeed while browserCtx is alive
CommandCanSucceed == ~cancelled

\* a task that is one CDP command succeeds
RunCommand ==
  /\ pc = "run"
  /\ Tasks(req)[task] \in PlainCommands
  /\ CommandCanSucceed
  /\ task' = task + 1
  /\ UNCHANGED << domVars, confVars, exceptions, mLinks, upstream, req, pc, recorder, w, result, listening, responseHTML >>
  /\ UNCHANGED << session, cancelled, clientDone, workers, links, awaited, workerError >>
  /\ UNCHANGED pageVars

\* a task returns an error (a done context, a browser error): Run returns
\* it and ServeHTTP wraps it, errors.Wrap(err, "failed to run chrome")
\* (lines 233-235); result is << message, cause >>
RunFails ==
  /\ pc = "run"
  /\ Tasks(req)[task] # "ListenTarget"
  /\ result' = << "failed to run chrome",
                  IF cancelled THEN "context canceled" ELSE "cdp error" >>
  /\ pc' = "return"
  /\ UNCHANGED << domVars, confVars, exceptions, mLinks, upstream, req, recorder, w, task, listening, responseHTML >>
  /\ UNCHANGED << session, cancelled, clientDone, workers, links, awaited, workerError >>
  /\ UNCHANGED pageVars

\* lines 100-203: the ActionFunc installs the listener and returns nil
ListenTarget ==
  /\ Running("ListenTarget")
  /\ listening' = TRUE
  /\ task' = task + 1
  /\ UNCHANGED << domVars, confVars, exceptions, mLinks, upstream, req, pc, recorder, w, result, responseHTML >>
  /\ UNCHANGED << session, cancelled, clientDone, workers, links, awaited, workerError >>
  /\ UNCHANGED pageVars

NewWorker(ev) ==
  [pc |-> "start", ev |-> ev, res |-> "none", subReq |-> NoRequest,
   subRes |-> NewResponseWriter, calls |-> <<>>, served |-> FALSE,
   verdicts |-> <<>>, ok |-> <<>>, err |-> "none", sessions |-> 0]

\* the dispatcher's part of a requestPaused event: `go func() {...}()`
Spawn(ws, ev) == Append(ws, NewWorker(ev))

\* chromedp.Navigate (line 214): the page asks for its main document
NavigateStart ==
  /\ Running("Navigate")
  /\ doc = "none"
  /\ CommandCanSucceed
  /\ listening
  /\ doc' = "requested"
  /\ workers' = Spawn(workers, MainDocumentEvent(req, Len(workers) + 1))
  /\ UNCHANGED srvVars
  /\ UNCHANGED << session, cancelled, clientDone, links, awaited, workerError >>
  /\ UNCHANGED << cc, promise, complete, batch >>

\* the page loaded: Navigate returns
NavigateDone ==
  /\ Running("Navigate")
  /\ doc = "loaded"
  /\ CommandCanSucceed
  /\ task' = task + 1
  /\ UNCHANGED << domVars, confVars, exceptions, mLinks, upstream, req, pc, recorder, w, result, listening, responseHTML >>
  /\ UNCHANGED << session, cancelled, clientDone, workers, links, awaited, workerError >>
  /\ UNCHANGED pageVars

\* chromedp.Evaluate("window.CaddyChrome.pendingTask") with AwaitPromise
\* (lines 215-218): the expression is evaluated once and its value awaited
EvaluateStart ==
  /\ Running("Evaluate")
  /\ ~awaited.waiting
  /\ CommandCanSucceed
  /\ awaited' = [waiting |-> TRUE, promise |-> cc.pendingTask]
  /\ UNCHANGED srvVars
  /\ UNCHANGED << session, cancelled, clientDone, workers, links, workerError >>
  /\ UNCHANGED pageVars

PromiseState(p) == IF p = ResolvedPromise THEN "resolved" ELSE promise[p]

EvaluateReturnsWithoutAwait == TRUE

\* Runtime.evaluate answers once the awaited promise is settled
EvaluateReturns == PromiseState(awaited.promise) # "pending"

\* chromedp.Evaluate returns the exception of a rejected promise as its error
EvaluateIgnoresRejection == FALSE

EvaluateErrs == PromiseState(awaited.promise) = "rejected"

EvaluateDone ==
  /\ Running("Evaluate")
  /\ awaited.waiting
  /\ CommandCanSucceed
  /\ EvaluateReturns
  /\ ~EvaluateErrs
  /\ task' = task + 1
  /\ UNCHANGED << domVars, confVars, exceptions, mLinks, upstream, req, pc, recorder, w, result, listening, responseHTML >>
  /\ UNCHANGED << session, cancelled, clientDone, workers, links, awaited, workerError >>
  /\ UNCHANGED pageVars

EvaluateRejected ==
  /\ Running("Evaluate")
  /\ awaited.waiting
  /\ CommandCanSucceed
  /\ EvaluateReturns
  /\ EvaluateErrs
  /\ result' = << "failed to run chrome", "exception (in promise)" >>
  /\ pc' = "return"
  /\ UNCHANGED << domVars, confVars, exceptions, mLinks, upstream, req, recorder, w, task, listening, responseHTML >>
  /\ UNCHANGED << session, cancelled, clientDone, workers, links, awaited, workerError >>
  /\ UNCHANGED pageVars

\* the DOM as it is now: which pending tasks have finished their work
Snapshot == [taken |-> TRUE, hydrated |-> { t \in 1..MaxTasks : complete[t] = "resolved" }]

\* the snapshot callback runs on a done context all the same
QueryAfterOnDoneContext ==
  /\ Running("QueryAfter")
  /\ responseHTML' = Snapshot
  /\ pc' = "emit"
  /\ UNCHANGED << domVars, confVars, exceptions, mLinks, upstream, req, recorder, w, result, task, listening >>
  /\ UNCHANGED << session, cancelled, clientDone, workers, links, awaited, workerError >>
  /\ UNCHANGED pageVars

\* chromedp.QueryAfter("html", ...) (lines 219-231): the DOM snapshot; it
\* is the last task, so Run returns nil
QueryAfter ==
  /\ Running("QueryAfter")
  /\ CommandCanSucceed
  /\ responseHTML' = Snapshot
  /\ pc' = "emit"
  /\ UNCHANGED << domVars, confVars, exceptions, mLinks, upstream, req, recorder, w, result, task, listening >>
  /\ UNCHANGED << session, cancelled, clientDone, workers, links, awaited, workerError >>
  /\ UNCHANGED pageVars

(***************************************************************************)
(* Emission of the rendered response (lines 237-261).                      *)
(***************************************************************************)
\* a strip list that misses the validators
skipHeadersShort == { "Content-Length" }

skipHeaders == { "Accept-Ranges", "Content-Length", "Etag", "Last-Modified", "Vary" }

\* only the first value of each header is passed on
CopiedHeadersFirstValue(header) ==
  [n \in (DOMAIN header) \ skipHeaders |-> << header[n][1] >>]

\* lines 237-248: the upstream headers without the skipped ones
CopiedHeaders(header) ==
  [n \in (DOMAIN header) \ skipHeaders |-> header[n]]

LinkValueAlwaysPreload(url, relAs) ==
  << "<" >> \o url \o << ">; rel=preload; as=", relAs >>

\* one Link header value (links.MakeHeaders)
LinkValue(url, relAs) ==
  IF relAs = "preconnect"
  THEN << "<" >> \o url \o << ">; rel=preconnect" >>
  ELSE << "<" >> \o url \o << ">; rel=preload; as=", relAs >>

\* the orders in which Go may range over the map
LinkOrders(l) ==
  { f \in [1..Cardinality(DOMAIN l) -> DOMAIN l] :
      \A k \in DOMAIN l : \E i \in 1..Cardinality(DOMAIN l) : f[i] = k }

\* links.MakeHeaders(w.Header()): header.Add("Link", ...) per entry
MakeHeaders(l, header, order) ==
  IF DOMAIN l = {} THEN header
  ELSE MapPut(header, "Link",
              (IF "Link" \in DOMAIN header THEN header["Link"] ELSE <<>>)
                \o [i \in 1..Len(order) |-> LinkValue(order[i], l[order[i]])])

EmitHeaders ==
  /\ pc = "emit"
  /\ \E order \in LinkOrders(links) :
       w' = [w EXCEPT !.header = MakeHeaders(links, CopiedHeaders(recorder.header), order)]
  /\ pc' = "write_header"
  /\ UNCHANGED << domVars, confVars, exceptions, mLinks, upstream, req, recorder, result, task, listening, responseHTML >>
  /\ UNCHANGED << session, cancelled, clientDone, workers, links, awaited, workerError >>
  /\ UNCHANGED pageVars

\* w.WriteHeader(recorder.Status()) (line 252)
WriteHeader ==
  /\ pc = "write_header"
  /\ w' = [w EXCEPT !.wroteHeader = TRUE, !.status = recorder.status]
  /\ pc' = "write_body"
  /\ UNCHANGED << domVars, confVars, exceptions, mLinks, upstream, req, recorder, result, task, listening, responseHTML >>
  /\ UNCHANGED << session, cancelled, clientDone, workers, links, awaited, workerError >>
  /\ UNCHANGED pageVars

\* the two w.Write calls (lines 254-259) succeed
WriteBody ==
  /\ pc = "write_body"
  /\ w' = [w EXCEPT !.body = << DoctypeChunk, HTMLChunk(responseHTML) >>]
  /\ result' = << "nil", "" >>
  /\ pc' = "return"
  /\ UNCHANGED << domVars, confVars, exceptions, mLinks, upstream, req, recorder, task, listening, responseHTML >>
  /\ UNCHANGED << session, cancelled, clientDone, workers, links, awaited, workerError >>
  /\ UNCHANGED pageVars

\* a w.Write call fails: its error is returned
WriteFails ==
  /\ pc = "write_body"
  /\ \E written \in { <<>>, << DoctypeChunk >> } :
       w' = [w EXCEPT !.body = written]
  /\ result' = << "write error", "" >>
  /\ pc' = "return"
  /\ UNCHANGED << domVars, confVars, exceptions, mLinks, upstream, req, recorder, task, listening, responseHTML >>
  /\ UNCHANGED << session, cancelled, clientDone, workers, links, awaited, workerError >>
  /\ UNCHANGED pageVars

\* ServeHTTP returns without its deferred calls
ReturnWithoutDefers ==
  /\ pc = "return"
  /\ pc' = "returned"
  /\ UNCHANGED << domVars, confVars, exceptions, mLinks, upstream, req, recorder, w, result, task, listening, responseHTML >>
  /\ UNCHANGED << session, cancelled, clientDone, workers, links, awaited, workerError >>
  /\ UNCHANGED pageVars

\* ServeHTTP returns: the deferred browserCancel and timeoutCancel run
\* (lines 83, 86) when a Session was opened
Return ==
  /\ pc = "return"
  /\ pc' = "returned"
  /\ session' = IF session = "open" THEN "closed" ELSE session
  /\ cancelled' = IF session = "open" THEN TRUE ELSE cancelled
  /\ UNCHANGED << domVars, confVars, exceptions, mLinks, upstream, req, recorder, w, result, task, listening, responseHTML >>
  /\ UNCHANGED << clientDone, workers, links, awaited, workerError >>
  /\ UNCHANGED pageVars

(***************************************************************************)
(* The router worker started for each requestPaused event (lines 104-197). *)
(***************************************************************************)
\* the worker issued a command; `ok` is whether Do(ctx) returned nil
IssueTwice(wk, cmd, ok) ==
  [wk EXCEPT !.pc = "done",
             !.verdicts = Append(Append(wk.verdicts, cmd), cmd),
             !.ok = Append(Append(wk.ok, ok), ok),
             !.err = IF ok THEN wk.err ELSE "command failed"]

Issue(wk, cmd, ok) ==
  [wk EXCEPT !.pc = "done",
             !.verdicts = Append(wk.verdicts, cmd),
             !.ok = Append(wk.ok, ok),
             !.err = IF ok THEN wk.err ELSE "command failed"]

\* the worker gave up before any command (lines 112-116, 133-137)
GiveUp(wk, why) == [wk EXCEPT !.pc = "done", !.err = why]

\* lines 105-179: from the start of the goroutine to the first point where
\* it waits (the sub-request) or ends; cancel is whether browserCancel ran
StartStep(wk, r, l, ok) ==
  LET ev == wk.ev
      parsed == UrlParse(ev.URL)
      br == Branch(ev, parsed, r)
      hinted == RecordHint(l, ev, parsed, br)
  IN IF parsed.err
     THEN [wk |-> GiveUp(wk, "failed to parse request URL"), links |-> l, cancel |-> TRUE]
     ELSE CASE br = "navigation" ->
                 [wk |-> [wk EXCEPT !.pc = "fulfill", !.res = "recorder"],
                  links |-> l, cancel |-> FALSE]
            [] br = "replay" ->
                 IF ValidMethod(ev.Method)
                 THEN [wk |-> [wk EXCEPT !.pc = "serving", !.subReq = SubRequest(ev)],
                       links |-> hinted, cancel |-> FALSE]
                 ELSE [wk |-> GiveUp(wk, "failed to create sub request"),
                       links |-> hinted, cancel |-> TRUE]
            [] br = "continue" ->
                 [wk |-> Issue(wk, ContinueRequest(ev.RequestID), ok),
                  links |-> hinted, cancel |-> ~ok]
            [] br = "block" ->
                 [wk |-> Issue(wk, FailRequest(ev.RequestID, "BlockedByClient"), ok),
                  links |-> hinted, cancel |-> ~ok]

\* whether cmd.Do(ctx) may return nil: never on a done context; on a live
\* one the browser may still refuse the command
MayReturn(ok) == ok => ~cancelled

\* `go func() {...}()` (line 104): a worker is a goroutine of its own and
\* runs whenever it can, whatever the other workers are doing
RunsInListener(ws, i) == \A k \in 1..(i - 1) : ws[k].pc = "done"

Scheduled(ws, i) == TRUE

WorkerStart(i) ==
  /\ ProcessAlive
  /\ workers[i].pc = "start"
  /\ Scheduled(workers, i)
  /\ \E ok \in BOOLEAN :
       LET step == StartStep(workers[i], req, links, ok)
       IN /\ MayReturn(ok)
          /\ workers' = [workers EXCEPT ![i] = step.wk]
          /\ links' = step.links
          /\ cancelled' = (cancelled \/ step.cancel)
          /\ workerError' = (workerError \/ (step.cancel /\ pc = "run"))
  /\ UNCHANGED srvVars
  /\ UNCHANGED << session, clientDone, awaited >>
  /\ UNCHANGED pageVars

\* server.ServeHTTP(subResponse, subRequest) (line 146) runs and returns
ServeStep(wk, kind) ==
  LET calls == HandlerCalls(kind, wk.subReq)
  IN [wk EXCEPT !.pc = "fulfill", !.res = "subResponse", !.served = TRUE,
                !.calls = calls,
                !.subRes = ApplyCalls(NewResponseWriter, calls)]

HandlerServe(i) ==
  /\ ProcessAlive
  /\ workers[i].pc = "serving"
  /\ Scheduled(workers, i)
  /\ \E kind \in HandlerKinds :
       workers' = [workers EXCEPT ![i] = ServeStep(workers[i], kind)]
  /\ UNCHANGED srvVars
  /\ UNCHANGED << session, cancelled, clientDone, links, awaited, workerError >>
  /\ UNCHANGED pageVars

\* the response `res` points to (lines 119, 148)
ResponseOfSubResponse(wk, rec) == wk.subRes

ResponseOf(wk, rec) ==
  IF wk.res = "recorder"
  THEN [status |-> rec.status, header |-> rec.header, buffer |-> rec.buffer]
  ELSE wk.subRes

\* a failed fulfillRequest is sent again
FulfillStepRetries(wk, rec, ok) ==
  IF ok THEN Issue(wk, FulfillRequest(wk.ev.RequestID, ResponseOf(wk, rec)), ok)
  ELSE IssueTwice(wk, FulfillRequest(wk.ev.RequestID, ResponseOf(wk, rec)), ok)

\* lines 181-196
FulfillStep(wk, rec, ok) ==
  Issue(wk, FulfillRequest(wk.ev.RequestID, ResponseOf(wk, rec)), ok)

WorkerFulfill(i) ==
  /\ ProcessAlive
  /\ workers[i].pc = "fulfill"
  /\ Scheduled(workers, i)
  /\ \E ok \in BOOLEAN :
       LET next == FulfillStep(workers[i], recorder, ok)
       IN /\ MayReturn(ok)
          /\ workers' = [workers EXCEPT ![i] = next]
          /\ cancelled' = (cancelled \/ ~ok)
          /\ workerError' = (workerError \/ (~ok /\ pc = "run"))
          /\ doc' = IF ok /\ i = 1 /\ doc = "requested" THEN "loaded" ELSE doc
  /\ UNCHANGED srvVars
  /\ UNCHANGED << session, clientDone, links, awaited >>
  /\ UNCHANGED << cc, promise, complete, batch >>

(***************************************************************************)
(* The page.                                                               *)
(***************************************************************************)
PageAlive == doc = "loaded" /\ ~cancelled

\* the page asks for a resource: the dispatcher delivers requestPaused to
\* the listener, which starts a worker and returns
Deliver(events) ==
  /\ ProcessAlive
  /\ PageAlive
  /\ listening
  /\ \E ev \in events : workers' = Spawn(workers, ev)
  /\ UNCHANGED srvVars
  /\ UNCHANGED << session, cancelled, clientDone, links, awaited, workerError >>
  /\ UNCHANGED pageVars

RequestPaused ==
  /\ Len(workers) < MaxRequests + 1
  /\ Deliver(PageEvents(req, Len(workers) + 1))

\* requests that are in flight together
RequestPausedOverlapping ==
  /\ Len(workers) < MaxOverlap + 1
  /\ Deliver(OverlapEvents(req, Len(workers) + 1))

ExceptionThrownCancels ==
  /\ ProcessAlive
  /\ PageAlive
  /\ listening
  /\ exceptions < MaxExceptions
  /\ exceptions' = exceptions + 1
  /\ cancelled' = TRUE
  /\ UNCHANGED << domVars, confVars, mLinks, upstream, req, pc, recorder, w, result, task, listening, responseHTML >>
  /\ UNCHANGED << session, clientDone, workers, links, awaited, workerError >>
  /\ UNCHANGED pageVars

\* case *runtime.EventExceptionThrown: the listener logs
\* event.ExceptionDetails.Exception.Description. Exception is the optional
\* `exception` object of the event, a pointer: reading Description through
\* it when the browser left it out is a nil dereference, a panic on the
\* goroutine that delivers the events.
ExceptionThrown ==
  /\ ProcessAlive
  /\ PageAlive
  /\ listening
  /\ exceptions < MaxExceptions
  /\ exceptions' = exceptions + 1
  /\ \E hasException \in BOOLEAN :
       pc' = IF hasException THEN pc ELSE "panicked"
  /\ UNCHANGED << domVars, confVars, mLinks, upstream, req, recorder, w, result, task, listening, responseHTML >>
  /\ UNCHANGED << session, cancelled, clientDone, workers, links, awaited, workerError >>
  /\ UNCHANGED pageVars

\* a component dispatches a pending-task event
DispatchTask(t) ==
  /\ PageAlive
  /\ complete[t] = "undispatched"
  /\ \A u \in 1..(t - 1) : complete[u] # "undispatched"
  /\ cc' = OnPendingTask(cc)
  /\ promise' = IF cc'.pendingTask # cc.pendingTask
                THEN [promise EXCEPT ![cc'.pendingTask] = "pending"]
                ELSE promise
  /\ complete' = [complete EXCEPT ![t] = "pending"]
  /\ batch' = [batch EXCEPT ![t] = cc'.pendingTask]
  /\ UNCHANGED srvVars
  /\ UNCHANGED << session, cancelled, clientDone, workers, links, awaited, workerError, doc >>

\* an event's `complete` promise settles and the listener resumes
SettleTask(t) ==
  /\ PageAlive
  /\ complete[t] = "pending"
  /\ \E rejected \in BOOLEAN :
       LET after == AfterAwait(cc, rejected)
       IN /\ complete' = [complete EXCEPT ![t] = IF rejected THEN "rejected" ELSE "resolved"]
          /\ IF after.pending = 0
             THEN /\ promise' = [promise EXCEPT ![after.resolve] = Settlement(after)]
                  /\ cc' = AfterSettlement(after)
             ELSE /\ promise' = promise
                  /\ cc' = after
  /\ UNCHANGED srvVars
  /\ UNCHANGED << session, cancelled, clientDone, workers, links, awaited, workerError, doc, batch >>

(***************************************************************************)
(* The specification.                                                      *)
(***************************************************************************)
\* ServeHTTP itself: the upstream call, chromedp.Run and the emission
Serve ==
  \/ UpstreamError
  \/ UpstreamPassThrough
  \/ UpstreamBuffered
  \/ OpenSession
  \/ ClientCancel
  \/ Deadline
  \/ RunCommand
  \/ RunFails
  \/ ListenTarget
  \/ NavigateStart
  \/ NavigateDone
  \/ EvaluateStart
  \/ EvaluateDone
  \/ QueryAfter
  \/ EmitHeaders
  \/ WriteHeader
  \/ WriteBody
  \/ WriteFails
  \/ Return

\* the workers' own steps
Router ==
  \/ \E i \in DOMAIN workers : WorkerStart(i)
  \/ \E i \in DOMAIN workers : WorkerFulfill(i)

\* a render of a page that asks for subresources
Next ==
  \/ Serve
  \/ Router
  \/ RequestPaused
  \/ \E i \in DOMAIN workers : HandlerServe(i)

Spec == Init /\ [][Next]_vars

\* a render of a page whose requests overlap
NextConcurrent ==
  \/ Serve
  \/ Router
  \/ RequestPausedOverlapping
  \/ \E i \in DOMAIN workers : HandlerServe(i)

SpecConcurrent == Init /\ [][NextConcurrent]_vars

(***************************************************************************)
(* The root handler runs the server's routes, this handler among them:     *)
(* server.ServeHTTP(subResponse, subRequest) (line 146) enters ServeHTTP   *)
(* again, with the sub-request as r and the sub-response as w.             *)
(***************************************************************************)
\* a route that answers the sub-request with a document
PageCalls ==
  << CallAdd("Content-Type", "text/html"), CallWriteHeader(200), CallWrite(LongestBody) >>

\* the inner ServeHTTP: next answers, the recorder admits the answer (lines
\* 46-68) and a Session is opened for it (lines 82-86); the page of that
\* Session asks for a resource of its host, and its worker is now the one
\* inside server.ServeHTTP
ReplayRenders(i) ==
  /\ ProcessAlive
  /\ workers[i].pc = "serving"
  /\ workers[i].sessions < MaxSessions
  /\ \E calls \in { HandlerCalls(k, workers[i].subReq) : k \in HandlerKinds } \cup { PageCalls } :
       ShouldBuffer(AnsweredStatus(calls), ApplyCalls(NewResponseWriter, calls).header)
  /\ workers' = [workers EXCEPT ![i].sessions = @ + 1]
  /\ UNCHANGED srvVars
  /\ UNCHANGED << session, cancelled, clientDone, links, awaited, workerError >>
  /\ UNCHANGED pageVars

\* the inner renders are over: the sub-response holds what the outermost of
\* them wrote, the document of lines 237-259 or, when it returned an error
\* (line 234), the server's answer to a failed handler
ReplayReturns(i) ==
  /\ ProcessAlive
  /\ workers[i].pc = "serving"
  /\ workers[i].sessions > 0
  /\ \E calls \in { PageCalls, << CallWriteHeader(500) >> } :
       workers' = [workers EXCEPT ![i] =
                     [@ EXCEPT !.pc = "fulfill", !.res = "subResponse", !.served = TRUE,
                               !.calls = calls,
                               !.subRes = ApplyCalls(NewResponseWriter, calls)]]
  /\ UNCHANGED srvVars
  /\ UNCHANGED << session, cancelled, clientDone, links, awaited, workerError >>
  /\ UNCHANGED pageVars

\* no route of the replay rendered: the handler's answer is the sub-response
ReplayAnswers(i) ==
  /\ workers[i].sessions = 0
  /\ HandlerServe(i)

\* a render of a page that asks for documents of its own server
NextReplay ==
  \/ Serve
  \/ Router
  \/ RequestPaused
  \/ \E i \in DOMAIN workers : ReplayAnswers(i)
  \/ \E i \in DOMAIN workers : ReplayRenders(i)
  \/ \E i \in DOMAIN workers : ReplayReturns(i)

SpecReplay == Init /\ [][NextReplay]_vars

\* a render of a page with components that dispatch pending-task events
NextSettle ==
  \/ Serve
  \/ Router
  \/ EvaluateRejected
  \/ ExceptionThrown
  \/ \E t \in 1..MaxTasks : DispatchTask(t)
  \/ \E t \in 1..MaxTasks : SettleTask(t)

SpecSettle == Init /\ [][NextSettle]_vars

(***************************************************************************)
(* The module's life before it serves: the Caddyfile is parsed, the        *)
(* module is provisioned, and in the end cleaned up.                       *)
(***************************************************************************)
\* everything a render changes: untouched while the module is configured
renderVars ==
  << domVars, exceptions, upstream, req, pc, recorder, w, result, session, cancelled, clientDone,
     task, listening, workers, links, doc, cc, promise, complete, batch, awaited,
     responseHTML, workerError >>

InitConfig ==
  /\ dispenser \in SeqsUpTo(BlockLines, MaxLines)
  /\ m = NewMiddleware
  /\ phase = "caddyfile"
  /\ chromeCtx = NilPointer
  /\ mLinks = FALSE
  /\ upstream = [status |-> 0, header |-> EmptyMap, body |-> << >>]
  /\ req = [TLS |-> FALSE, Cookies |-> << >>, UserAgent |-> ""]
  /\ NoSerializer
  /\ NoRender

\* parseCaddyfile (lines 371-378): the Middleware is kept unless
\* UnmarshalCaddyfile returned an error
Unmarshal ==
  /\ phase = "caddyfile"
  /\ LET st == UnmarshalCaddyfile(dispenser)
     IN /\ m' = st.m
        /\ mLinks' = st.links
        /\ phase' = IF st.err THEN "caddyfile error" ELSE "parsed"
  /\ UNCHANGED << dispenser, chromeCtx >>
  /\ UNCHANGED renderVars

\* Provision (lines 288-357): chromedp.Run at line 339 starts the browser
\* (or dials the remote one) and asks for its version; when that fails the
\* deferred function cancels the allocator and clears m.chromeCtx
Provision ==
  /\ phase = "parsed"
  /\ LET pr == ProvisionConfig(m)
     IN /\ m' = pr.m
        /\ IF pr.outcome = "allocated"
           THEN \E connected \in BOOLEAN :
                  /\ phase' = IF connected THEN "provisioned" ELSE "browser error"
                  /\ chromeCtx' = IF connected THEN pr.allocator ELSE NilPointer
           ELSE /\ phase' = pr.outcome
                /\ chromeCtx' = NilPointer
  /\ UNCHANGED << dispenser, mLinks >>
  /\ UNCHANGED renderVars

\* Cleanup (lines 359-369): chromedp.Cancel within ten seconds
Cleanup ==
  /\ phase = "provisioned"
  /\ \E closed \in BOOLEAN :
       /\ phase' = IF closed THEN "cleaned up" ELSE "cleanup error"
       /\ chromeCtx' = IF closed THEN NilPointer ELSE chromeCtx
  /\ UNCHANGED << dispenser, m, mLinks >>
  /\ UNCHANGED renderVars

NextConfig ==
  \/ Unmarshal
  \/ Provision
  \/ Cleanup

SpecConfig == InitConfig /\ [][NextConfig]_vars

(***************************************************************************)
(* Serializing a snapshot: a domSerializer is made for a document and      *)
(* Serialize is called on it once.                                         *)
(***************************************************************************)
InitSerialize ==
  /\ \E root \in Documents, failAt \in 0..MaxFailAt :
       /\ serializer = [root |-> root, doctypeWritten |-> FALSE, noEscape |-> FALSE]
       /\ writer = [written |-> << >>, failAt |-> failAt]
  /\ serializeErr = "not called"
  /\ Provisioned
  /\ mLinks = FALSE
  /\ upstream = [status |-> 0, header |-> EmptyMap, body |-> << >>]
  /\ req = [TLS |-> FALSE, Cookies |-> << >>, UserAgent |-> ""]
  /\ NoRender

\* Serialize (lines 35-37)
Serialize ==
  /\ serializeErr = "not called"
  /\ serializer.root # << >>
  /\ LET st == serializeNode([doctypeWritten |-> serializer.doctypeWritten,
                              noEscape |-> serializer.noEscape,
                              written |-> writer.written, failAt |-> writer.failAt,
                              err |-> FALSE],
                             serializer.root, << >>)
     IN /\ serializer' = [serializer EXCEPT !.doctypeWritten = st.doctypeWritten,
                                            !.noEscape = st.noEscape]
        /\ writer' = [writer EXCEPT !.written = st.written]
        /\ serializeErr' = IF st.err THEN "error" ELSE "nil"
  /\ UNCHANGED << confVars, mLinks, exceptions, upstream, req, pc, recorder, w, result,
                  session, cancelled, clientDone, task, listening, workers, links, doc, cc,
                  promise, complete, batch, awaited, responseHTML, workerError >>

SpecSerialize == InitSerialize /\ [][Serialize]_vars

(***************************************************************************)
(* Properties of the request router.                                       *)
(***************************************************************************)
\* the navigate URL, written out: scheme, "://", r.Host, r.RequestURI
IsNavigation(ev) ==
  ev.URL = << IF req.TLS THEN "https" ELSE "http", "://", RequestHost, RequestURI >>

Parses(ev) == ~UrlParse(ev.URL).err

HostOf(ev) == ev.URL[3]

Handleable(ev) == ev.ResourceType \in { "Script", "XHR", "Fetch" }

InList(list, h) == \E k \in 1..Len(list) : list[k] = h

ReplayRule(ev) ==
  Handleable(ev) /\ (HostOf(ev) = RequestHost \/ InList(FulfillHosts, HostOf(ev)))

ContinueRule(ev) ==
  ~ReplayRule(ev) /\ Handleable(ev) /\ InList(ContinueHosts, HostOf(ev))

IsDone(i) == workers[i].pc = "done"

\* worker i issued exactly one command, of this kind, with its event's id
OneVerdict(i, kind) ==
  /\ Len(workers[i].verdicts) = 1
  /\ workers[i].verdicts[1].kind = kind
  /\ workers[i].verdicts[1].RequestID = workers[i].ev.RequestID

(***************************************************************************)
(* Reading a Base64 text back (RFC 4648), to state what a fulfillRequest   *)
(* body says.                                                              *)
(***************************************************************************)
B64Index(c) == (CHOOSE i \in 1..64 : B64Alphabet[i] = c) - 1

RECURSIVE Base64Decode(_)
Base64Decode(cs) ==
  IF Len(cs) < 4 THEN <<>>
  ELSE
    LET a == B64Index(cs[1])
        b == B64Index(cs[2])
        b1 == a * 4 + (b \div 16)
    IN IF cs[3] = "=" THEN << b1 >>
       ELSE LET c == B64Index(cs[3])
                b2 == (b % 16) * 16 + (c \div 4)
            IN IF cs[4] = "=" THEN << b1, b2 >>
               ELSE << b1, b2, (c % 4) * 64 + B64Index(cs[4]) >>
                      \o Base64Decode(SubSeq(cs, 5, Len(cs)))

\* the command carries this status, one header entry per header value and
\* the Base64 text of this body
Carries(cmd, status, header, body) ==
  /\ cmd.ResponseCode = status
  /\ \A n \in DOMAIN header : \A k \in DOMAIN header[n] :
       << n, k, header[n][k] >> \in cmd.ResponseHeaders
  /\ \A e \in cmd.ResponseHeaders :
       e[1] \in DOMAIN header /\ e[2] \in DOMAIN header[e[1]]
         /\ e[3] = header[e[1]][e[2]]
  /\ Base64Decode(cmd.Body) = body
  /\ Len(cmd.Body) = 4 * ((Len(body) + 2) \div 3)

\* the sub-request is the paused request over again
SameRequest(subReq, ev) ==
  /\ subReq.Method = ev.Method
  /\ subReq.URL = ev.URL
  /\ \A n \in DOMAIN ev.Headers :
       CanonicalKey(n) \in DOMAIN subReq.Header
         /\ subReq.Header[CanonicalKey(n)] = << ev.Headers[n] >>
  /\ \A n \in DOMAIN subReq.Header :
       \E h \in DOMAIN ev.Headers : CanonicalKey(h) = n
  /\ subReq.hasBody = ev.HasPostData
  /\ ev.HasPostData => subReq.Body = ev.PostData
  /\ subReq.ctx = "reqContext"

\* C1 as the specification states it: every requestPaused event, whatever
\* branch its worker takes, gets exactly one of fulfillRequest,
\* continueRequest, failRequest, issued with the event's id.
C1_ExactlyOneVerdict ==
  \A i \in DOMAIN workers :
    IsDone(i) =>
      \E kind \in { "fulfillRequest", "continueRequest", "failRequest" } :
        OneVerdict(i, kind)

\* the worker ends before any command: the URL does not parse, or the
\* sub-request cannot be constructed
GivesUp(ev) ==
  \/ ~Parses(ev)
  \/ ~IsNavigation(ev) /\ ReplayRule(ev) /\ ~ValidMethod(ev.Method)

\* C1, amended: a worker that meets no internal error before its command
\* issues exactly one of fulfillRequest, continueRequest, failRequest, with
\* its event's id; a worker whose URL does not parse (or whose sub-request
\* cannot be constructed) issues no command at all and cancels the Session.
C1_OneVerdictUnlessGivenUp ==
  \A i \in DOMAIN workers :
    /\ Len(workers[i].verdicts) <= 1
    /\ IsDone(i) =>
         IF GivesUp(workers[i].ev)
         THEN workers[i].verdicts = <<>> /\ cancelled
         ELSE \E kind \in { "fulfillRequest", "continueRequest", "failRequest" } :
                OneVerdict(i, kind)

C1_Witness ==
  /\ Len(workers) = 2
  /\ IsDone(1) /\ OneVerdict(1, "fulfillRequest") /\ workers[1].ok[1]
  /\ IsDone(2) /\ ~Parses(workers[2].ev) /\ workers[2].verdicts = <<>>

C3_ReplayFulfilledFromHandler ==
  \A i \in DOMAIN workers :
    LET wk == workers[i] IN
    (~IsNavigation(wk.ev) /\ Parses(wk.ev) /\ HostOf(wk.ev) = RequestHost
       /\ Handleable(wk.ev) /\ IsDone(i)) =>
      /\ wk.served
      /\ SameRequest(wk.subReq, wk.ev)
      /\ OneVerdict(i, "fulfillRequest")
      /\ Carries(wk.verdicts[1], AnsweredStatus(wk.calls), wk.subRes.header,
                 AnsweredBody(wk.calls))

\* C4 as the specification states it: every non-navigation request whose
\* host is in fulfill_hosts is replayed and fulfilled, whatever its
\* resource type; never continued, never failed.
C4_FulfillHostsAnyType ==
  \A i \in DOMAIN workers :
    LET wk == workers[i] IN
    (~IsNavigation(wk.ev) /\ Parses(wk.ev) /\ InList(FulfillHosts, HostOf(wk.ev))
       /\ IsDone(i)) =>
      wk.served /\ OneVerdict(i, "fulfillRequest")

\* C4, amended: a non-navigation request whose host is in fulfill_hosts is
\* replayed into the server's handler and fulfilled from the captured
\* sub-response when its type is Script, XHR or Fetch, and is never
\* continued; of any other type it is not replayed but failed with
\* BlockedByClient.
C4_FulfillHostsHandleable ==
  \A i \in DOMAIN workers :
    LET wk == workers[i] IN
    (~IsNavigation(wk.ev) /\ Parses(wk.ev) /\ InList(FulfillHosts, HostOf(wk.ev))) =>
      /\ \A k \in DOMAIN wk.verdicts : wk.verdicts[k].kind # "continueRequest"
      /\ IsDone(i) =>
           IF Handleable(wk.ev)
           THEN /\ wk.served
                /\ SameRequest(wk.subReq, wk.ev)
                /\ OneVerdict(i, "fulfillRequest")
                /\ Carries(wk.verdicts[1], wk.subRes.status, wk.subRes.header,
                           AnsweredBody(wk.calls))
           ELSE /\ ~wk.served
                /\ OneVerdict(i, "failRequest")
                /\ wk.verdicts[1].reason = "BlockedByClient"

C4_Witness ==
  \E i \in DOMAIN workers :
    /\ HostOf(workers[i].ev) = "both.example.com"
    /\ workers[i].ev.ResourceType = "Fetch" /\ workers[i].ev.HasPostData
    /\ IsDone(i) /\ workers[i].served /\ workers[i].ok = << TRUE >>
    /\ workers[i].verdicts[1].ResponseCode = 200
    /\ Len(workers[i].subRes.buffer) = 2

OriginText(ev) == << ev.URL[1], "://", ev.URL[3] >>

\* C5: a request the replay rule does not match, of type Script, XHR or
\* Fetch, whose host is in continue_hosts is released with continueRequest
\* and never replayed, and scheme://host is recorded as a preconnect hint;
\* such a request to a host in both lists is replayed instead.
C5_ContinueHosts ==
  \A i \in DOMAIN workers :
    LET wk == workers[i] IN
    /\ (~IsNavigation(wk.ev) /\ Parses(wk.ev) /\ ContinueRule(wk.ev)) =>
         /\ wk.pc \in { "start", "done" }
         /\ ~wk.served /\ wk.subReq = NoRequest
         /\ IsDone(i) =>
              /\ OneVerdict(i, "continueRequest")
              /\ OriginText(wk.ev) \in DOMAIN links
              /\ links[OriginText(wk.ev)] = "preconnect"
    /\ (~IsNavigation(wk.ev) /\ Parses(wk.ev) /\ Handleable(wk.ev)
          /\ InList(FulfillHosts, HostOf(wk.ev))
          /\ InList(ContinueHosts, HostOf(wk.ev)) /\ IsDone(i)) =>
         wk.served /\ OneVerdict(i, "fulfillRequest")

C5_Witness ==
  \E i \in DOMAIN workers :
    /\ HostOf(workers[i].ev) = "cdn.example.com"
    /\ workers[i].ev.ResourceType = "Script"
    /\ IsDone(i) /\ workers[i].ok = << TRUE >>
    /\ workers[i].verdicts[1].kind = "continueRequest"
    /\ links = [x \in { << "https", "://", "cdn.example.com" >> } |-> "preconnect"]

\* matched by none of the rules
BlockRule(ev) ==
  ~IsNavigation(ev) /\ Parses(ev) /\ ~ReplayRule(ev) /\ ~ContinueRule(ev)

\* C6 as the specification states it: a request matched by none of the
\* rules is failed with BlockedByClient, reaches neither the server's
\* handler nor the network, and a hint is still recorded for it: a load
\* hint when its host is the request host, a preconnect hint otherwise.
C6_BlockedAlwaysHinted ==
  \A i \in DOMAIN workers :
    LET wk == workers[i] IN
    (BlockRule(wk.ev) /\ IsDone(i)) =>
      /\ OneVerdict(i, "failRequest")
      /\ wk.verdicts[1].reason = "BlockedByClient"
      /\ ~wk.served
      /\ IF HostOf(wk.ev) = RequestHost
         THEN wk.ev.URL \in DOMAIN links
         ELSE /\ OriginText(wk.ev) \in DOMAIN links
              /\ links[OriginText(wk.ev)] = "preconnect"

\* the resource types AddResource has a relAs for
Linkable(ev) == ev.ResourceType \in { "Font", "Image", "Script", "Stylesheet" }

C6_Blocked ==
  \A i \in DOMAIN workers :
    LET wk == workers[i] IN
    BlockRule(wk.ev) =>
      /\ wk.pc \in { "start", "done" }
      /\ ~wk.served /\ wk.subReq = NoRequest
      /\ IsDone(i) =>
           /\ OneVerdict(i, "failRequest")
           /\ wk.verdicts[1].reason = "BlockedByClient"
           /\ (HostOf(wk.ev) # RequestHost) =>
                /\ OriginText(wk.ev) \in DOMAIN links
                /\ links[OriginText(wk.ev)] = "preconnect"
           /\ (HostOf(wk.ev) = RequestHost /\ Linkable(wk.ev)) =>
                wk.ev.URL \in DOMAIN links

C6_NoHintStep ==
  \A i \in DOMAIN workers :
    LET wk == workers[i] IN
    (BlockRule(wk.ev) /\ wk.pc = "start" /\ workers'[i].pc = "done"
       /\ HostOf(wk.ev) = RequestHost /\ ~Linkable(wk.ev)) =>
      links' = links

\* C6, amended: a request matched by none of the rules is failed with
\* BlockedByClient and reaches neither the server's handler nor the
\* network; a preconnect hint is recorded when its host is not the request
\* host, a load hint when its host is the request host and its type is
\* Font, Image or Stylesheet; for a request-host request of any other type
\* (Document, Media) the Link Set is left as it was.
C6_BlockedHintedByType == []C6_Blocked /\ [][C6_NoHintStep]_vars

C6_Witness ==
  \E i \in DOMAIN workers :
    /\ BlockRule(workers[i].ev) /\ HostOf(workers[i].ev) = RequestHost
    /\ workers[i].ev.ResourceType = "Media"
    /\ IsDone(i) /\ workers[i].ok = << TRUE >>
    /\ workers[i].verdicts[1].kind = "failRequest"
    /\ links = newLinks

\* C7: when a worker hits an internal error while the render is running
\* (its URL does not parse, the sub-request cannot be constructed, its
\* command fails), the Session is cancelled, chromedp.Run fails, and
\* ServeHTTP returns the wrapped error: nothing is written to the client.
C7_WorkerErrorFailsRender ==
  workerError =>
    /\ cancelled
    /\ pc \in { "run", "return", "returned" }
    /\ pc # "run" => result[1] = "failed to run chrome"
    /\ ~responseHTML.taken
    /\ w = NoResponse

C7_Witness ==
  /\ workerError
  /\ pc = "returned"
  /\ result = << "failed to run chrome", "context canceled" >>
  /\ \E i \in DOMAIN workers : workers[i].err = "failed to parse request URL"

(***************************************************************************)
(* Properties of the workers' concurrency (SpecConcurrent).                *)
(***************************************************************************)
\* C8: while one worker is blocked in the server's handler, the other
\* workers still issue their commands and the dispatcher still delivers
\* events: nothing waits for the blocked worker.
C8_BlockedWorkerBlocksNobody ==
  \A i \in DOMAIN workers :
    workers[i].pc = "serving" =>
      /\ \A j \in DOMAIN workers :
           /\ workers[j].pc = "start" => ENABLED WorkerStart(j)
           /\ workers[j].pc = "fulfill" => ENABLED WorkerFulfill(j)
      /\ (PageAlive /\ listening /\ Len(workers) < MaxOverlap + 1) =>
           ENABLED RequestPausedOverlapping

C8_Witness ==
  \E i \in DOMAIN workers : \E j \in DOMAIN workers :
    /\ i < j
    /\ workers[i].pc = "serving"
    /\ workers[j].pc = "done" /\ workers[j].ok = << TRUE >>
    /\ workers[j].verdicts[1].kind = "continueRequest"

(***************************************************************************)
(* Properties of the settlement protocol (SpecSettle).                     *)
(***************************************************************************)
\* the events counted under the promise the driver awaited
AwaitedBatch == { t \in 1..MaxTasks : batch[t] = awaited.promise }

\* C9: when a pending-task event's complete promise is unsettled at the
\* moment the driver evaluates pendingTask, the DOM snapshot is not taken
\* until every complete promise outstanding under that pendingTask has
\* settled and the awaited promise is resolved.
C9_SnapshotAfterSettlement ==
  /\ (awaited.waiting /\ awaited.promise # ResolvedPromise /\ responseHTML.taken) =>
       /\ promise[awaited.promise] = "resolved"
       /\ \A t \in AwaitedBatch : complete[t] = "resolved"
       /\ AwaitedBatch \subseteq responseHTML.hydrated
  /\ (awaited.waiting /\ awaited.promise # ResolvedPromise
        /\ \E t \in AwaitedBatch : complete[t] = "pending") =>
       ~responseHTML.taken /\ pc \in { "run", "return", "returned", "panicked" }

C9_Witness ==
  /\ awaited.promise # ResolvedPromise
  /\ Cardinality(AwaitedBatch) = 2
  /\ responseHTML.taken
  /\ pc = "returned" /\ result[1] = "nil"

\* C10 as the specification states it: a pendingTask that rejects while
\* the driver awaits it does not abort the render, the DOM is still
\* snapshotted and the rendered response returned; so ServeHTTP never
\* fails with the rejection as its cause.
C10_RejectionDoesNotAbort ==
  (awaited.waiting /\ PromiseState(awaited.promise) = "rejected") =>
    result # << "failed to run chrome", "exception (in promise)" >>

\* C10, amended: when pendingTask rejects while the driver awaits it, the
\* evaluation returns the rejection as an error: no DOM snapshot is taken,
\* nothing is written to the client, and what ServeHTTP returns is the
\* wrapped "failed to run chrome" error.
C10_RejectionAbortsRender ==
  (awaited.waiting /\ PromiseState(awaited.promise) = "rejected") =>
    /\ ~responseHTML.taken
    /\ w = NoResponse
    /\ pc \in { "run", "return", "returned", "panicked" }
    /\ pc \in { "return", "returned" } => result[1] = "failed to run chrome"

C10_Witness ==
  /\ awaited.waiting /\ PromiseState(awaited.promise) = "rejected"
  /\ pc = "returned"
  /\ result = << "failed to run chrome", "exception (in promise)" >>

(***************************************************************************)
(* Properties of cancellation, cleanup and the emitted response.           *)
(***************************************************************************)
C11_NothingWrittenYet ==
  /\ (cancelled /\ pc = "run") => (w = NoResponse /\ ~responseHTML.taken)
  /\ result[1] = "failed to run chrome" =>
       (w = NoResponse /\ ~responseHTML.taken /\ pc \in { "return", "returned", "panicked" })

C11_CancelStep ==
  /\ (pc = "run" /\ (ClientCancel \/ Deadline)) => cancelled'
  /\ (cancelled /\ pc = "run" /\ pc' # "run") =>
       /\ pc' = "return"
       /\ result' = << "failed to run chrome", "context canceled" >>
       /\ w' = NoResponse

\* C11: when the client's request context is cancelled or the Session's
\* deadline expires while chromedp.Run is running, the Session is
\* cancelled, Run can only end with an error, ServeHTTP returns it wrapped
\* as "failed to run chrome", and no status, header or body is written.
C11_CancelFailsRender == []C11_NothingWrittenYet /\ [][C11_CancelStep]_vars

C11_Witness ==
  /\ clientDone /\ ~workerError /\ doc = "loaded"
  /\ \A i \in DOMAIN workers : workers[i].err = "none"
  /\ pc = "returned"
  /\ result = << "failed to run chrome", "context canceled" >>
  /\ w = NoResponse

\* C12: on every exit path taken after a Session was opened (rendered
\* response, Run error, write error), the per-request browser context and
\* its deadline are cancelled and released by the time ServeHTTP has
\* returned; a Session is open only while ServeHTTP is still running.
C12_SessionReleasedOnReturn ==
  /\ pc = "returned" => (session \in { "none", "closed" })
  /\ (pc = "returned" /\ session = "closed") => cancelled
  /\ (pc = "returned" /\ recorder.buffered) => session = "closed"
  /\ session = "open" =>
       pc \in { "run", "emit", "write_header", "write_body", "return", "panicked" }

C12_Witness ==
  /\ pc = "returned" /\ session = "closed" /\ cancelled
  /\ result[1] = "write error" /\ ~clientDone

\* the upstream Content-Type values whose media type is a configured one
C13_Renderable ==
  /\ "Content-Type" \in DOMAIN upstream.header
  /\ upstream.header["Content-Type"][1]
       \in { "text/html", "text/html; charset=utf-8", "Text/HTML" }

C13_AsUpstreamWrote ==
  w = [wroteHeader |-> TRUE, status |-> upstream.status,
       header |-> upstream.header, body |-> << BytesChunk(upstream.body) >>]

Stripped == { "Accept-Ranges", "Content-Length", "Etag", "Last-Modified", "Vary" }

\* the client got the header of a rendered response
RenderedHeaderSent == recorder.buffered /\ w.wroteHeader

\* C14: no rendered response written to the client carries an
\* Accept-Ranges, Content-Length, Etag, Last-Modified or Vary header of the
\* buffered upstream response.
C14_StrippedHeadersAbsent ==
  recorder.buffered => \A n \in Stripped : n \notin DOMAIN w.header

C14_Witness ==
  /\ RenderedHeaderSent /\ pc = "returned" /\ result[1] = "nil"
  /\ Stripped \subseteq DOMAIN upstream.header
  /\ "Set-Cookie" \in DOMAIN w.header

IsPrefix(a, b) == Len(a) <= Len(b) /\ SubSeq(b, 1, Len(a)) = a

\* C15: a rendered response has the buffered upstream status, and every
\* upstream header outside the stripped set is passed on with all of its
\* values in order, none dropped and none duplicated; the only headers
\* added are Link values, after those the upstream set itself.
C15_StatusAndHeadersPassedOn ==
  RenderedHeaderSent =>
    /\ w.status = upstream.status
    /\ \A n \in (DOMAIN upstream.header) \ Stripped :
         /\ n \in DOMAIN w.header
         /\ IF n = "Link" THEN IsPrefix(upstream.header[n], w.header[n])
            ELSE w.header[n] = upstream.header[n]
    /\ \A n \in DOMAIN w.header :
         n = "Link" \/ n \in (DOMAIN upstream.header) \ Stripped

C15_Witness ==
  /\ RenderedHeaderSent /\ pc = "returned" /\ result[1] = "nil"
  /\ w.status = 404
  /\ w.header["Set-Cookie"] = << "a=1", "b=2" >>
  /\ Len(w.header["Link"]) = 2

\* C16: Link headers are added to the response only when the `links` option
\* is enabled: with the option off, a rendered response carries no Link value
\* besides the ones the upstream handler set itself.
C16_LinkHeadersOnlyWhenEnabled ==
  (RenderedHeaderSent /\ ~mLinks) =>
    IF "Link" \in DOMAIN upstream.header
    THEN w.header["Link"] = upstream.header["Link"]
    ELSE "Link" \notin DOMAIN w.header

Routed(i) == workers[i].pc # "start" /\ Parses(workers[i].ev) /\ ~IsNavigation(workers[i].ev)

RelAs(resourceType) ==
  CASE resourceType = "Stylesheet" -> "style"
    [] resourceType = "Script" -> "script"
    [] resourceType = "Image" -> "image"
    [] resourceType = "Font" -> "font"

LinkValues(header) == IF "Link" \in DOMAIN header THEN header["Link"] ELSE << >>

HintText(key) ==
  IF links[key] = "preconnect"
  THEN << "<" >> \o key \o << ">; rel=preconnect" >>
  ELSE << "<" >> \o key \o << ">; rel=preload; as=", links[key] >>

\* The Link Set holds an entry for every routed request that is not the
\* navigation: its URL for a linkable type on the request host, its origin
\* for a foreign host.
C17_RoutedRequestsHinted ==
  \A i \in DOMAIN workers :
    Routed(i) =>
      IF HostOf(workers[i].ev) = RequestHost
      THEN Linkable(workers[i].ev) =>
             /\ workers[i].ev.URL \in DOMAIN links
             /\ links[workers[i].ev.URL] # "preconnect"
      ELSE /\ OriginText(workers[i].ev) \in DOMAIN links
           /\ links[OriginText(workers[i].ev)] = "preconnect"

\* The Link Set holds nothing else: every entry is the URL of a routed
\* request-host request of a linkable type, kept under the keyword of that
\* type, or the origin of a routed foreign request, kept as a preconnect.
C17_OnlyRoutedRequestsHinted ==
  \A key \in DOMAIN links :
    \E i \in DOMAIN workers :
      /\ Routed(i)
      /\ \/ /\ HostOf(workers[i].ev) = RequestHost
            /\ Linkable(workers[i].ev)
            /\ key = workers[i].ev.URL
            /\ links[key] = RelAs(workers[i].ev.ResourceType)
         \/ /\ HostOf(workers[i].ev) # RequestHost
            /\ key = OriginText(workers[i].ev)
            /\ links[key] = "preconnect"

\* With link emission on, the step that makes the headers adds exactly one
\* Link value per entry of the Link Set, in the form of its kind, after the
\* Link values of the upstream response.
C17_EmitStep ==
  (mLinks /\ pc = "emit" /\ pc' = "write_header") =>
    LET sent == LinkValues(w'.header)
        kept == Len(LinkValues(upstream.header))
    IN /\ Len(sent) = kept + Cardinality(DOMAIN links)
       /\ \A key \in DOMAIN links :
            \E j \in (kept + 1)..Len(sent) : sent[j] = HintText(key)

C18_ExceptionStep ==
  exceptions' # exceptions =>
    /\ cancelled' = cancelled /\ session' = session
    /\ workers' = workers
    /\ result' = result /\ workerError' = workerError
    /\ pc' \in { pc, "panicked" }

C19_ProcessSurvives == pc # "panicked"

(***************************************************************************)
(* Properties of the upstream call.                                        *)
(***************************************************************************)
UpstreamFailed == "upstream error" \in { result[1], result[2] }

\* C20: when the next handler returns an error, ServeHTTP returns that very
\* error with nothing wrapped around it, opens no Session and writes nothing
\* to the client.
C20_UpstreamErrorUnchanged ==
  UpstreamFailed =>
    /\ result = << "upstream error", "" >>
    /\ session = "none" /\ ~cancelled /\ ~listening
    /\ workers = << >> /\ links = newLinks
    /\ w = NoResponse
    /\ pc \in { "return", "returned" }

C20_Witness ==
  /\ pc = "returned"
  /\ result = << "upstream error", "" >>
  /\ session = "none"
  /\ w = NoResponse

(***************************************************************************)
(* Properties of the settlement script (SpecSettle).                       *)
(***************************************************************************)
EventArrives == cc'.events = cc.events + 1

C29_AllocationStep ==
  EventArrives =>
    IF cc.pending = 0
    THEN /\ cc'.pendingTask \notin { cc.pendingTask, ResolvedPromise }
         /\ promise[cc'.pendingTask] = "unallocated"
         /\ promise'[cc'.pendingTask] = "pending"
         /\ cc'.resolve = cc'.pendingTask /\ cc'.reject = cc'.pendingTask
    ELSE /\ cc'.pendingTask = cc.pendingTask
         /\ cc'.resolve = cc.resolve /\ cc'.reject = cc.reject
         /\ promise' = promise

C29_OnePromisePerBatch ==
  \A t, u \in 1..MaxTasks :
    (complete[t] = "pending" /\ complete[u] = "pending") =>
      (batch[t] = batch[u] /\ batch[t] = cc.pendingTask /\ batch[t] # ResolvedPromise)

\* C29: a pending-task event allocates a new unresolved pendingTask exactly
\* when it arrives while pending is 0; an event that arrives while pending
\* is above 0 leaves pendingTask, resolve and reject as they are, so the
\* events that overlap are all counted under one promise.
C29_AllocatedWhenIdle == []C29_OnePromisePerBatch /\ [][C29_AllocationStep]_vars

C29_Witness ==
  /\ complete = << "pending", "pending" >>
  /\ batch[1] = batch[2] /\ batch[1] # ResolvedPromise
  /\ cc.pending = 2 /\ promise[cc.pendingTask] = "pending"

BatchOf(p) == { t \in 1..MaxTasks : batch[t] = p }

C30_SettleStep ==
  (cc.pending > 0 /\ cc'.pending = 0) =>
    /\ promise'[cc.pendingTask] =
         IF \E t \in BatchOf(cc.pendingTask) : complete'[t] = "rejected"
         THEN "rejected" ELSE "resolved"
    /\ \A p \in 1..MaxTasks : p # cc.pendingTask => promise'[p] = promise[p]
    /\ cc'.failed = 0
    /\ cc'.pendingTask = ResolvedPromise
    /\ cc'.events = cc.events

C30_Idle ==
  cc.pending = 0 => (cc.failed = 0 /\ cc.pendingTask = ResolvedPromise)

\* C30 (amended): when pending returns to 0 the current pendingTask is
\* resolved if no complete promise of its batch rejected and rejected
\* otherwise; afterwards pending and failed are 0 and pendingTask is an
\* already resolved promise, while events keeps the count of all events
\* seen; no other promise is touched, so a failed batch does not make a
\* later one reject.
C30_BatchSettledOnItsOwn == []C30_Idle /\ [][C30_SettleStep]_vars

C30_Witness ==
  /\ complete = << "rejected", "resolved" >>
  /\ batch = << 1, 2 >>
  /\ promise = << "rejected", "resolved" >>
  /\ cc.pending = 0 /\ cc.failed = 0 /\ cc.events = 2

\* C30 as stated: once pending is back to 0 the counters events, pending
\* and failed are all 0 and pendingTask is an already resolved promise.
C30_CountersAllReset ==
  cc.pending = 0 =>
    (cc.events = 0 /\ cc.failed = 0 /\ cc.pendingTask = ResolvedPromise)

\* the events received whose `complete` promise has not settled
Unsettled == { t \in 1..MaxTasks : complete[t] = "pending" }

C31_CountStep ==
  /\ \A t \in 1..MaxTasks :
       (complete[t] = "undispatched" /\ complete'[t] # "undispatched") =>
         (complete'[t] = "pending" /\ cc'.pending = cc.pending + 1)
  /\ \A t \in 1..MaxTasks :
       (complete[t] = "pending" /\ complete'[t] \in { "resolved", "rejected" }) =>
         cc'.pending = cc.pending - 1
  /\ cc'.pending # cc.pending => Cardinality(Unsettled') # Cardinality(Unsettled)

\* C31: pending is at every moment the number of pending-task events
\* received whose `complete` promise has not settled; it goes up by one
\* when an event arrives, down by one when a `complete` promise resolves
\* or rejects, changes at no other step, and is never negative.
C31_PendingCountsUnsettled ==
  [](cc.pending = Cardinality(Unsettled) /\ cc.pending >= 0) /\ [][C31_CountStep]_vars

\* one event's promise rejected while another's is still open
C31_Witness ==
  /\ complete = << "rejected", "pending" >>
  /\ cc.pending = 1
  /\ cc.failed = 1

\* the verdict commands worker i has sent
Verdicts(i) == workers[i].verdicts

C35_AtMostOne ==
  \A i \in DOMAIN workers :
    /\ Len(Verdicts(i)) <= 1
    /\ \A k \in 1..Len(Verdicts(i)) :
         /\ Verdicts(i)[k].kind \in { "fulfillRequest", "continueRequest", "failRequest" }
         /\ Verdicts(i)[k].RequestID = workers[i].ev.RequestID
         /\ workers[i].pc = "done"

C35_NoSecondVerdict ==
  \A i \in DOMAIN workers :
    Verdicts(i) # << >> =>
      (i \in DOMAIN workers' /\ workers'[i] = workers[i])

\* C35: a worker sends at most one of fulfillRequest, continueRequest and
\* failRequest, with the request id of the event that started it, and is
\* over once it has sent it, whether the command succeeded or failed: it
\* sends nothing more for that id.
C35_OneVerdictPerWorker == []C35_AtMostOne /\ [][C35_NoSecondVerdict]_vars

\* a fulfillRequest failed, the session is cancelled, and the render went
\* on to return
C35_Witness ==
  /\ pc = "returned"
  /\ \E i \in DOMAIN workers :
       /\ Len(Verdicts(i)) = 1
       /\ Verdicts(i)[1].kind = "fulfillRequest"
       /\ workers[i].ok = << FALSE >>
       /\ workers[i].err = "command failed"
  /\ cancelled

\* C36: a fulfillRequest built from a sub-response carries the status the
\* handler answered with, which is a status between 100 and 599: 200 when
\* the handler never called WriteHeader.
C36_FulfilledWithAnsweredStatus ==
  \A i \in DOMAIN workers :
    (workers[i].served /\ Verdicts(i) # << >>) =>
      /\ Verdicts(i)[1].ResponseCode = AnsweredStatus(workers[i].calls)
      /\ Verdicts(i)[1].ResponseCode \in 100..599

\* links.MakeHeaders (line 250) has started for this request
HeadersMade ==
  \/ pc \in { "write_header", "write_body" }
  \/ (pc \in { "return", "returned" } /\ recorder.buffered /\ w.wroteHeader)

\* worker i has yet to reach its links.AddResource or links.AddPreconnect
CanStillAdd(i) ==
  /\ workers[i].pc = "start"
  /\ StartStep(workers[i], req, links, TRUE).links # links

C33_NoWriterAtRead ==
  (pc = "emit" \/ HeadersMade) => \A i \in DOMAIN workers : ~CanStillAdd(i)

C33_NoAddAfterRead == HeadersMade => links' = links

\* C33: when MakeHeaders reads the Link Set no worker of the request can
\* still add to it: every AddResource and AddPreconnect of the request
\* happens before MakeHeaders starts, and the Link Set never changes once
\* the headers have been made.
C33_LinksReadAfterLastAdd == []C33_NoWriterAtRead /\ [][C33_NoAddAfterRead]_vars

\* the deferred bufPool.Put(buf) (line 43) has run: the buffer behind the
\* recorder is in the pool, for any request to take and reset
BufferPooled == pc = "returned"

\* worker i reads res.Buffer().Bytes() (line 188) of the recorder's buffer
\* in this step
ReadsRecorderBuffer(i) ==
  /\ workers[i].pc = "fulfill"
  /\ workers[i].res = "recorder"
  /\ i \in DOMAIN workers'
  /\ workers'[i].pc = "done"

\* C34: once ServeHTTP has put its buffer back into the pool no worker of
\* the request reads that buffer.
C34_NoReadOfPooledBuffer ==
  [][BufferPooled => \A i \in DOMAIN workers : ~ReadsRecorderBuffer(i)]_vars

\* the Sessions opened inside the replay of worker i's request
SessionsOpened(i) == workers[i].sessions

\* C37: replaying an intercepted request into the root handler starts no
\* render: the only Session opened for a client request is the one ServeHTTP
\* opened for the client's own document.
C37_ReplayStartsNoRender ==
  \A i \in DOMAIN workers : SessionsOpened(i) = 0

(***************************************************************************)
(* The order of the render's steps (SpecSettle).                           *)
(***************************************************************************)
\* the tasks chromedp.Run has finished without an error
TasksDone == IF task = 0 THEN << >> ELSE SubSeq(Tasks(req), 1, task - 1)

\* what is installed before the page is navigated to
Installed ==
  << "Fetch.enable", "Runtime.enable", "ListenTarget" >>
    \o [i \in 1..Len(req.Cookies) |-> "Network.setCookie"]
    \o (IF req.UserAgent = "" THEN << >> ELSE << "Emulation.setUserAgentOverride" >>)
    \o << "Page.addScriptToEvaluateOnNewDocument" >>

C32_InOrder ==
  /\ doc # "none" => (IsPrefix(Installed, TasksDone) /\ listening)
  /\ awaited.waiting => IsPrefix(Append(Installed, "Navigate"), TasksDone)
  /\ responseHTML.taken =>
       /\ TasksDone = Installed \o << "Navigate", "Evaluate" >>
       /\ awaited.waiting
       /\ PromiseState(awaited.promise) = "resolved"
  /\ (recorder.buffered /\ w # NoResponse) => responseHTML.taken
  /\ result[1] = "failed to run chrome" => (w = NoResponse /\ ~responseHTML.taken)

C32_OneTaskAtATime ==
  task' # task => (task' = task + 1 /\ (task = 0 \/ (pc = "run" /\ pc' = "run")))

\* C32: the tasks of a render finish one at a time and in their order; the
\* page is navigated to only when Fetch.enable, Runtime.enable, the
\* listener, every cookie, the User-Agent override and the script
\* injection are done; the snapshot is taken only when the awaited promise
\* has resolved; and the client is written to only when the snapshot is
\* there, so a render that failed at a step has written nothing.
C32_StepsInOrder == []C32_InOrder /\ [][C32_OneTaskAtATime]_vars

\* a render with a cookie and a User-Agent that waited for a pending task
\* and was written out
C32_Witness ==
  /\ req.UserAgent # "" /\ Len(req.Cookies) > 0
  /\ awaited.promise # ResolvedPromise
  /\ responseHTML.taken
  /\ w.wroteHeader /\ Len(w.body) = 2
  /\ result[1] = "nil"


(***************************************************************************)
(* Properties of the configuration (SpecConfig).                           *)
(***************************************************************************)
\* the lines of the Caddyfile whose directive is one of the given names
LinesNamed(names) ==
  { i \in 1..Len(dispenser) : \E n \in names : dispenser[i][1] = << n >> }

ExecNames == { "exec", "exec_no_default_flags" }
BrowserNames == ExecNames \cup { "url" }

\* the browser directives the Caddyfile names
BrowsersNamed == { n \in BrowserNames : LinesNamed({ n }) # { } }

\* a browser was started (or dialled) for this configuration
BrowserStarted ==
  phase \in { "provisioned", "browser error", "cleaned up", "cleanup error" }

\* C21: a configuration that names more than one of exec,
\* exec_no_default_flags and url never gets as far as starting a browser:
\* it is rejected by the parser or by Provision's check, and no allocator
\* is ever made for it.
C21_OneBrowserOnly ==
  Cardinality(BrowsersNamed) > 1 => ~BrowserStarted /\ chromeCtx = NilPointer

\* C22: after a successful parse, the exec browser is the one of the last
\* exec or exec_no_default_flags line: its path is the token before the
\* first token that starts with "--" (none: empty), its flags are that
\* token and all after it without the tokens equal to "--", default_flags
\* says whether the line was exec; and the other fields are what the
\* Caddyfile without its exec lines gives.
LastExecLine == CHOOSE i \in LinesNamed(ExecNames) : \A j \in LinesNamed(ExecNames) : j <= i

FirstFlag(args) ==
  IF \E i \in 1..Len(args) : args[i][1] = "--"
  THEN CHOOSE i \in 1..Len(args) :
         args[i][1] = "--" /\ \A j \in 1..(i - 1) : args[j][1] # "--"
  ELSE Len(args) + 1

NotSeparator(token) == token # << "--" >>

WithoutLines(lines, drop) ==
  LET keep == { i \in 1..Len(lines) : i \notin drop }
      nth(k) == CHOOSE i \in keep : Cardinality({ j \in keep : j <= i }) = k
  IN [k \in 1..Cardinality(keep) |-> lines[nth(k)]]

C23_ProvisionNeverPanics == phase # "panic"


(***************************************************************************)
(* Properties of the serializer (SpecSerialize).  A place is the way from  *)
(* the root to a node: i for the i-th child, -j for the j-th shadow root.  *)
(***************************************************************************)
Written == writer.written

RECURSIVE NodeFrom(_, _)
NodeFrom(node, place) ==
  IF place = << >> THEN node
  ELSE IF Head(place) > 0 THEN NodeFrom(node.Children[Head(place)], Tail(place))
  ELSE NodeFrom(node.ShadowRoots[0 - Head(place)], Tail(place))

NodeAt(place) == NodeFrom(serializer.root, place)

\* the writes made for the node at a place, and for it and all below it
WritesAt(place) == { i \in DOMAIN Written : Written[i].at = place }
WritesBelow(place) == { i \in DOMAIN Written : IsPrefix(place, Written[i].at) }

\* the places of the nodes of one type that something was written for
PlacesWritten(type) ==
  { Written[i].at : i \in { k \in DOMAIN Written : NodeAt(Written[k].at).NodeType = type } }

Returned == serializeErr # "not called"
Completed == serializeErr = "nil"

DoctypeWrites ==
  { i \in DOMAIN Written : Written[i].bytes \in { << "<!DOCTYPE html>" >>, << "<!DOCTYPE " >> } }

DocumentTypes ==
  { k \in 1..Len(serializer.root.Children) :
      serializer.root.Children[k].NodeType = "DocumentType" }

\* C24: a completed serialization starts with a DOCTYPE and holds no other:
\* the document's DocumentType node as "<!DOCTYPE ", its name, ">", or, when
\* the document has none, "<!DOCTYPE html>" written for the document's
\* first element right before that element's "<".  No serialization, failed
\* or not, holds two.
C24_OneDoctypeFirst ==
  /\ Cardinality(DoctypeWrites) <= 1
  /\ Completed =>
       /\ DoctypeWrites = { 1 }
       /\ \A k \in DocumentTypes :
            /\ Written[1].bytes = << "<!DOCTYPE " >>
            /\ Written[2].bytes = serializer.root.Children[k].NodeName
            /\ Written[3].bytes = << ">" >>
            /\ \A i \in 1..3 : Written[i].at = << k >>
       /\ DocumentTypes = { } =>
            /\ Written[1].bytes = << "<!DOCTYPE html>" >>
            /\ Written[2].bytes = << "<" >>
            /\ Written[2].at = Written[1].at
            /\ \E k \in 1..Len(serializer.root.Children) :
                 /\ Written[1].at = << k >>
                 /\ serializer.root.Children[k].NodeType = "Element"
                 /\ \A j \in 1..(k - 1) : serializer.root.Children[j].NodeType # "Element"

\* a document without a DocumentType node whose element hosts a shadow root
\* with an element in it
C24_Witness ==
  /\ Completed
  /\ DocumentTypes = { }
  /\ \E i \in DOMAIN Written :
       /\ Written[i].bytes = << "<" >>
       /\ \E k \in 1..Len(Written[i].at) : Written[i].at[k] < 0


\* the write that closes the start tag of the element at a place
StartClose(place) ==
  CHOOSE i \in WritesAt(place) :
    /\ Written[i].bytes \in { << ">" >>, << " />" >> }
    /\ \A k \in WritesAt(place) :
         Written[k].bytes \in { << ">" >>, << " />" >> } => i <= k

TemplateWrites(place) ==
  { i \in WritesAt(place) :
      Written[i].bytes \in { << "<template shadowrootmode=\"" >>, << "</template>" >> } }

\* from the j-th shadow root of the host on, the writes after the k-th are
\* the wrappers of the open and closed roots, each around all that was
\* written for its root, and nothing of the host's children comes earlier
RECURSIVE TemplatesFrom(_, _, _)
TemplatesFrom(host, j, k) ==
  LET node == NodeAt(host)
  IN IF j > Len(node.ShadowRoots)
     THEN /\ \A i \in TemplateWrites(host) : i <= k
          /\ \A c \in 1..Len(node.Children) : \A i \in WritesBelow(Append(host, c)) : i > k
     ELSE LET type == node.ShadowRoots[j].ShadowRootType
              inside == WritesBelow(Append(host, 0 - j))
              n == Cardinality(inside)
          IN IF type \in { << "open" >>, << "closed" >> }
             THEN /\ k + 4 + n <= Len(Written)
                  /\ Written[k + 1] = [at |-> host, bytes |-> << "<template shadowrootmode=\"" >>,
                                       noEscape |-> Written[k + 1].noEscape]
                  /\ Written[k + 2].at = host /\ Written[k + 2].bytes = type
                  /\ Written[k + 3].at = host /\ Written[k + 3].bytes = << "\">" >>
                  /\ inside = (k + 4)..(k + 3 + n)
                  /\ (n = 0) = (node.ShadowRoots[j].Children = << >>)
                  /\ Written[k + 4 + n].at = host
                  /\ Written[k + 4 + n].bytes = << "</template>" >>
                  /\ TemplatesFrom(host, j + 1, k + 4 + n)
             ELSE /\ inside = { }
                  /\ TemplatesFrom(host, j + 1, k)

\* C25: in a completed serialization, right after the start tag of every
\* element come its open and closed shadow roots in list order, each as
\* <template shadowrootmode="TYPE">, the root's serialization, </template>,
\* and only then the element's children; nothing is written for a
\* user-agent root.
C25_ShadowRootsAsTemplates ==
  Completed => \A host \in PlacesWritten("Element") : TemplatesFrom(host, 1, StartClose(host))

\* a host with a user-agent root and an open root that holds an element,
\* and with a child
C25_Witness ==
  /\ Completed
  /\ \E host \in PlacesWritten("Element") :
       /\ Len(NodeAt(host).ShadowRoots) = 2
       /\ NodeAt(host).ShadowRoots[1].ShadowRootType = << "user-agent" >>
       /\ NodeAt(host).ShadowRoots[1].Children # << >>
       /\ NodeAt(host).ShadowRoots[2].ShadowRootType = << "open" >>
       /\ WritesBelow(Append(host, 0 - 2)) # { }
       /\ WritesBelow(Append(host, 1)) # { }


\* the node at a place is a script or style element
RawElement(place) ==
  /\ NodeAt(place).NodeType = "Element"
  /\ NodeAt(place).LocalName \in { << "s","c","r","i","p","t" >>, << "s","t","y","l","e" >> }

\* the node at a place is a child of a script or style element
ChildOfRaw(place) ==
  /\ place # << >>
  /\ place[Len(place)] > 0
  /\ RawElement(SubSeq(place, 1, Len(place) - 1))

\* the node at a place is a child of a script or style element or lies
\* anywhere below such a child
InsideRaw(place) == \E k \in 1..Len(place) : ChildOfRaw(SubSeq(place, 1, k))

\* what was written for the text node at a place is its value as it is
EmittedRaw(place) ==
  \A i \in WritesAt(place) : Written[i].bytes = NodeAt(place).NodeValue

\* what was written for it has none of the five characters left, and reads
\* back as its value
EmittedEscaped(place) ==
  LET unescape(piece) ==
        CASE piece \in { "&amp;" } -> "&"
          [] piece \in { "&lt;" } -> "<"
          [] piece \in { "&gt;" } -> ">"
          [] piece \in { "&#34;", "&quot;" } -> "\""
          [] piece \in { "&#39;", "&apos;" } -> "'"
          [] OTHER -> piece
  IN \A i \in WritesAt(place) :
       /\ Len(Written[i].bytes) = Len(NodeAt(place).NodeValue)
       /\ \A k \in 1..Len(Written[i].bytes) :
            /\ Written[i].bytes[k] \notin { "&", "<", ">", "\"", "'" }
            /\ unescape(Written[i].bytes[k]) = NodeAt(place).NodeValue[k]

\* C26 as stated: a text node is emitted raw when its parent is a script or
\* style element, and escaped otherwise.
C26_RawOnlyInChildren ==
  \A place \in PlacesWritten("Text") :
    IF ChildOfRaw(place) THEN EmittedRaw(place) ELSE EmittedEscaped(place)

\* C26: a text node is emitted raw when it is inside a script or style
\* element, as a child or anywhere below one, and escaped otherwise;
\* noEscape is set for every write inside such an element and for no write
\* outside of one, and is false again when Serialize has returned, with or
\* without an error.
C26_RawInsideScriptAndStyle ==
  /\ \A place \in PlacesWritten("Text") :
       IF InsideRaw(place) THEN EmittedRaw(place) ELSE EmittedEscaped(place)
  /\ \A i \in DOMAIN Written :
       /\ InsideRaw(Written[i].at) => Written[i].noEscape
       /\ Written[i].noEscape => InsideRaw(Written[i].at) \/ RawElement(Written[i].at)
  /\ Returned => ~serializer.noEscape

\* the text of an element below a script was written raw, then the
\* serialization failed on a node, not on the writer, and the flag is back
C26_Witness ==
  /\ serializeErr = "error"
  /\ Len(Written) + 1 # writer.failAt
  /\ ~serializer.noEscape
  /\ \E place \in PlacesWritten("Text") :
       /\ InsideRaw(place)
       /\ ~ChildOfRaw(place)
       /\ EmittedRaw(place)


\* the writes for the element at a place with the given bytes
TagWrites(place, bytes) == { i \in WritesAt(place) : Written[i].bytes = bytes }

\* the localName is one of the fourteen names, whatever its case
NamedVoid(localName) ==
  \E name \in voidElements :
    /\ Len(name) = Len(localName)
    /\ \A k \in 1..Len(name) : ToLower(<< localName[k] >>) = << name[k] >>

\* C27: in a completed serialization an element with one of the void names,
\* in any case, has its start tag closed by " />" and has no end tag; every
\* other element has its start tag closed by ">" and, after all that is
\* written for its shadow roots and children, one "</", its localName, ">".
C27_VoidElementsSelfClosed ==
  Completed =>
    \A place \in PlacesWritten("Element") :
      LET last == CHOOSE i \in WritesBelow(place) : \A k \in WritesBelow(place) : k <= i
      IN IF NamedVoid(NodeAt(place).LocalName)
         THEN /\ Written[StartClose(place)].bytes = << " />" >>
              /\ Cardinality(TagWrites(place, << " />" >>)) = 1
              /\ TagWrites(place, << "</" >>) = { }
              /\ TagWrites(place, << ">" >>) = { }
         ELSE /\ Written[StartClose(place)].bytes = << ">" >>
              /\ TagWrites(place, << " />" >>) = { }
              /\ TagWrites(place, << "</" >>) = { last - 2 }
              /\ Written[last - 1].at = place
              /\ Written[last - 1].bytes = NodeAt(place).LocalName
              /\ TagWrites(place, << ">" >>) = { StartClose(place), last }

\* an element named Br with a child, and an element that is not void
C27_Witness ==
  /\ Completed
  /\ \E place \in PlacesWritten("Element") :
       /\ NodeAt(place).LocalName = << "B", "r" >>
       /\ NodeAt(place).Children # << >>
       /\ \E inner \in PlacesWritten("Element") :
            /\ IsPrefix(place, inner)
            /\ NodeAt(inner).LocalName = << "b" >>

\* the writes from the k-th on are the attributes from the i-th name on,
\* and then the end of the start tag
RECURSIVE AttributesFrom(_, _, _)
AttributesFrom(place, i, k) ==
  LET attributes == NodeAt(place).Attributes
      is(n, bytes) == n \in WritesAt(place) /\ Written[n].bytes = bytes
  IN IF i > Len(attributes) THEN k = StartClose(place)
     ELSE /\ is(k, << " " >>)
          /\ is(k + 1, attributes[i])
          /\ IF attributes[i + 1] = << >>
             THEN AttributesFrom(place, i + 2, k + 2)
             ELSE /\ is(k + 2, << "=\"" >>)
                  /\ k + 3 \in WritesAt(place)
                  /\ Len(Written[k + 3].bytes) = Len(attributes[i + 1])
                  /\ \A c \in 1..Len(attributes[i + 1]) :
                       Written[k + 3].bytes[c] =
                         CASE attributes[i + 1][c] = "&" -> "&amp;"
                           [] attributes[i + 1][c] = "\"" -> "&#34;"
                           [] attributes[i + 1][c] = "'" -> "&#39;"
                           [] attributes[i + 1][c] = "<" -> "&lt;"
                           [] attributes[i + 1][c] = ">" -> "&gt;"
                           [] OTHER -> attributes[i + 1][c]
                  /\ is(k + 4, << "\"" >>)
                  /\ AttributesFrom(place, i + 2, k + 5)

\* C28: in a completed serialization the start tag of every element is "<",
\* the localName, then for each name/value pair of the snapshot, in its
\* order and once, " " and the name as it is, followed by ="escaped value"
\* when the value is not empty, then the end of the start tag.
C28_AttributesInSnapshotOrder ==
  Completed =>
    \A place \in PlacesWritten("Element") :
      \E k \in WritesAt(place) :
        /\ Written[k].bytes = << "<" >>
        /\ \A i \in WritesAt(place) : i < k => Written[i].bytes = << "<!DOCTYPE html>" >>
        /\ k + 1 \in WritesAt(place)
        /\ Written[k + 1].bytes = NodeAt(place).LocalName
        /\ AttributesFrom(place, 1, k + 2)

\* foo:bar with a value to escape, then the boolean attribute
C28_Witness ==
  /\ Completed
  /\ \E place \in PlacesWritten("Element") :
       /\ NodeAt(place).Attributes =
            << << "foo:bar" >>, << "a", "\"", "&", "b" >>, << "hidden" >>, << >> >>
       /\ \E i \in WritesAt(place) : Written[i].bytes = << "a", "&#34;", "&amp;", "b" >>


\* the places of a tree
RECURSIVE PlacesFrom(_, _)
PlacesFrom(node, at) ==
  { at }
    \cup UNION { PlacesFrom(node.Children[i], Append(at, i)) : i \in 1..Len(node.Children) }
    \cup UNION { PlacesFrom(node.ShadowRoots[j], Append(at, 0 - j)) :
                   j \in 1..Len(node.ShadowRoots) }

\* the serializer gets to the node at a place unless a shadow root on the
\* way is neither open nor closed
Reached(place) ==
  \A k \in 1..Len(place) :
    place[k] < 0 =>
      NodeAt(SubSeq(place, 1, k)).ShadowRootType \in { << "open" >>, << "closed" >> }

\* the places it gets to that hold a node of a type it does not serialize
Unserializable ==
  { place \in PlacesFrom(serializer.root, << >>) :
      /\ NodeAt(place).NodeType \notin
           { "Document", "DocumentType", "Element", "Text", "DocumentFragment" }
      /\ Reached(place) }

\* place p comes before place q in the order of serialization: the shadow
\* roots of a node in list order, then its children in list order
Before(p, q) ==
  \E k \in 1..Len(p) :
    /\ k <= Len(q)
    /\ SubSeq(p, 1, k - 1) = SubSeq(q, 1, k - 1)
    /\ \/ p[k] < 0 /\ q[k] > 0
       \/ p[k] < 0 /\ q[k] < 0 /\ p[k] > q[k]
       \/ p[k] > 0 /\ q[k] > 0 /\ p[k] < q[k]

\* no Write of the writer has failed
WriterHeld == Len(Written) + 1 # writer.failAt

\* nothing was written for the node at `stop` or for anything after it
StoppedAt(stop) ==
  \A i \in DOMAIN Written :
    LET at == Written[i].at
    IN \/ Before(at, stop)
       \/ /\ at # stop
          /\ IsPrefix(at, stop)
          /\ Written[i].bytes # << "</" >>
          /\ stop[Len(at) + 1] < 0 =>
               Cardinality(TagWrites(at, << "</template>" >>))
                 < Cardinality(TagWrites(at, << "<template shadowrootmode=\"" >>))

\* C38: as long as no Write fails, Serialize returns an error exactly when
\* it gets to a node that is not a Document, DocumentType, Element, Text or
\* DocumentFragment, and then nothing is written for that node or for
\* anything that comes after it: no later node, no end tag of an element
\* around it; a tree of the five types alone is serialized without error.
C38_ErrorAtUnserializableNode ==
  (Returned /\ WriterHeld) =>
    /\ (serializeErr = "error") = (Unserializable # { })
    /\ \A stop \in Unserializable :
         (\A other \in Unserializable : other = stop \/ Before(stop, other)) => StoppedAt(stop)

\* a comment in an open shadow root that comes after a closed one: the
\* first template is complete, the second is left open
C38_Witness ==
  /\ serializeErr = "error"
  /\ writer.failAt = 0
  /\ \E stop \in Unserializable :
       /\ Len(stop) = 3 /\ stop[2] = 0 - 2
       /\ \E i \in DOMAIN Written : Written[i].bytes = << "</template>" >>

=============================================================================
